---------------------------- MODULE Spec2Model ----------------------------
(***************************************************************************)
(* Model of the realm_manager application of eternal-anvil-backend:        *)
(* the DayScheduleField (validation, sort on save), the Schedule and       *)
(* ScheduleException tables, Schedule.get_day_schedule and                 *)
(* ScheduleException.apply_exception; the Account and Player tables with   *)
(* the account views (list, retrieve, create, join, leave, remove user,    *)
(* update, delete) and the schedule view, the same joins and creations     *)
(* served concurrently; and of the users application:                      *)
(* User.get_user_for_discord_id and the Discord login.                     *)
(***************************************************************************)
EXTENDS Integers, Sequences, FiniteSets, Bags, TLC

VARIABLES
    schedules,   \* Schedule table: schedule id -> NoRow or the 7 stored encodings
    exceptions,  \* ScheduleException table: row id -> NoRow or [schedule, day, changes]
    obj,         \* the Schedule instance a caller holds in memory (NoObj if none)
    ret,         \* the list last returned by get_day_schedule on obj
    err,         \* outcome of the last operation: operation name and its error set
    records,     \* table of a model with one DayScheduleField: id -> NoRow or [field]
    rec,         \* the instance of that model a caller holds in memory
    m_base,      \* apply_exception: the `schedule` argument
    m_changes,   \* apply_exception: self.changes
    m_result,    \* apply_exception: the returned list
    m_pc,        \* apply_exception: "call" before the call, "done" after it
    accounts,    \* Account table: account id -> NoRow or [name, owner, game_world, realm]
    players,     \* Player table: the bag of its (user, account) rows
    req,         \* the last account operation and its arguments
    body,        \* what the last account request read: a list of accounts or one account
    schedule_player, \* Schedule.player: schedule id -> the player row it belongs to
    workers,     \* requests served at the same time: worker -> its operation and position
    users,       \* User table: the bag of its rows
    auth         \* the Discord login being served: its position and what it holds

vars == <<schedules, exceptions, obj, ret, err, records, rec, m_base, m_changes, m_result, m_pc,
          accounts, players, req, body, schedule_player, workers, users, auth>>

-----------------------------------------------------------------------------
(* Bounds of the model *)

MaxLen == 2          \* longest list a caller supplies for a field of a stored record
MergeMaxLen == 3     \* longest list passed to apply_exception directly
NumSchedules == 2    \* schedule ids 1..NumSchedules
NumOwn == 1          \* schedules 1..NumOwn are the ones the caller holds instances of
MaxExc == 3          \* exception row ids 1..MaxExc
DayMaxExc == 2       \* exception rows present while day schedules are queried
MaxChangeLen == 1    \* longest changes list supplied while the exception table is studied
MaxRecords == 2      \* record ids 1..MaxRecords of the one-field model
FirstDate == 7       \* first calendar day (proleptic ordinal) a caller queries
MaxDayOffset == 1    \* consecutive days FirstDate..FirstDate+MaxDayOffset
MaxWeek == 1         \* and the same weekday as FirstDate in the following weeks
NumUsers == 3        \* users that send requests
MaxAccounts == 2     \* accounts those users create, join, change and delete
NumGameWorlds == 2   \* game world ids 1..NumGameWorlds
NumRealms == 1       \* realm ids 1..NumRealms, realm r in game world r
Prefilled == 14      \* accounts other users created earlier in realm 1
MaxTableUsers == 4   \* most rows the User table holds
NumScheduleUsers == 2 \* users that read and write schedules
NumWorkers == 2      \* requests served at the same time
NumRacingUsers == 2  \* users whose requests are served at the same time

(* Program constants *)

MinValue == 0        \* MinValueValidator(0)
MaxValue == 288      \* MaxValueValidator(288)
RealmLimit == 15     \* self.realm.accounts.count() >= 15

-----------------------------------------------------------------------------
(* Python list helpers *)

SeqsUpTo(S, n) == UNION {[1..k -> S] : k \in 0..n}

ToSet(s) == {s[i] : i \in DOMAIN s}

IsSorted(s) == \A i \in DOMAIN s : \A j \in DOMAIN s : i < j => s[i] <= s[j]

IsStrictlyIncreasing(s) == \A i \in DOMAIN s : \A j \in DOMAIN s : i < j => s[i] < s[j]

Occurrences(s, x) == Cardinality({i \in DOMAIN s : s[i] = x})

IsPermutation(s, t) ==
    /\ Len(s) = Len(t)
    /\ \A x \in ToSet(s) \cup ToSet(t) : Occurrences(s, x) = Occurrences(t, x)

\* insert x into the ascending list s, after the elements equal to it
RECURSIVE InsertSorted(_, _)
InsertSorted(x, s) ==
    IF s = <<>> THEN <<x>>
    ELSE IF x < Head(s) THEN <<x>> \o s
    ELSE <<Head(s)>> \o InsertSorted(x, Tail(s))

\* Python's sorted(): a new ascending list with the same elements
RECURSIVE sorted(_)
sorted(s) ==
    IF s = <<>> THEN <<>>
    ELSE InsertSorted(s[Len(s)], sorted(SubSeq(s, 1, Len(s) - 1)))

-----------------------------------------------------------------------------
(* ScheduleException.apply_exception *)

EmptyDict == [keys |-> <<>>, count |-> <<>>]

\* the count is set to 1 at every occurrence instead of being incremented
CountItem_recount(d, item) ==
    IF item \in ToSet(d.keys)
    THEN d
    ELSE [keys |-> Append(d.keys, item), count |-> Append(d.count, 1)]

\* item_count.setdefault(item, 0); item_count[item] += 1
\* a dict is its keys in insertion order and the count held by each key
CountItem(d, item) ==
    LET d0 == IF item \in ToSet(d.keys)
              THEN d
              ELSE [keys |-> Append(d.keys, item), count |-> Append(d.count, 0)]
        k == CHOOSE i \in DOMAIN d0.keys : d0.keys[i] = item
    IN [keys |-> d0.keys, count |-> [d0.count EXCEPT ![k] = @ + 1]]

\* for item in combined: ...
RECURSIVE item_count(_)
item_count(combined) ==
    IF combined = <<>> THEN EmptyDict
    ELSE CountItem(item_count(SubSeq(combined, 1, Len(combined) - 1)),
                   combined[Len(combined)])

\* keeps the values counted at least once: a union instead of cancelling pairs
filtered_union(d) == d.keys

\* keeps the values counted more than once instead of exactly once
filtered_repeated(d) ==
    LET keep == {i \in DOMAIN d.keys : d.count[i] > 1}
        RECURSIVE Pick(_)
        Pick(i) == IF i > Len(d.keys) THEN <<>>
                   ELSE (IF i \in keep THEN <<d.keys[i]>> ELSE <<>>) \o Pick(i + 1)
    IN Pick(1)

\* [item for item in item_count if item_count[item] == 1]
filtered(d) ==
    LET keep == {i \in DOMAIN d.keys : d.count[i] = 1}
        RECURSIVE Pick(_)
        Pick(i) == IF i > Len(d.keys) THEN <<>>
                   ELSE (IF i \in keep THEN <<d.keys[i]>> ELSE <<>>) \o Pick(i + 1)
    IN Pick(1)

\* returns the surviving values in dict order, without the final sort
apply_exception_unsorted(schedule, changes) == filtered(item_count(schedule \o changes))

apply_exception(schedule, changes) ==
    sorted(filtered(item_count(schedule \o changes)))

-----------------------------------------------------------------------------
(* DayScheduleField *)

\* the item validators with the upper bound excluded
run_validators_exclusive_max(value) ==
    IF \E i \in DOMAIN value : value[i] < MinValue \/ value[i] >= MaxValue
    THEN {"item_invalid"}
    ELSE {}

\* base_field: PositiveIntegerField with MinValueValidator(0), MaxValueValidator(288);
\* ArrayField reports a failing item under the code item_invalid
run_validators(value) ==
    IF \E i \in DOMAIN value : value[i] < MinValue \/ value[i] > MaxValue
    THEN {"item_invalid"}
    ELSE {}

\* a uniqueness check that is never triggered
validate_nothing(value) == {}

\* DayScheduleField.validate: len(value) > len(set(value))
validate(value) ==
    IF Len(value) > Cardinality(ToSet(value))
    THEN {"items_not_unique"}
    ELSE {}

\* Field.clean: validate(), then run_validators(); the first that raises ends it
clean(value) ==
    IF validate(value) # {} THEN validate(value) ELSE run_validators(value)

\* Model.clean_fields: a blank=True field holding an empty value is skipped
clean_field(value) == IF value = <<>> THEN {} ELSE clean(value)

\* a pre_save that hands the value over as it is
pre_save_unsorted(value) == value

\* DayScheduleField.pre_save: the value written to the row
pre_save(value) == sorted(value)

-----------------------------------------------------------------------------
(* Calendar *)

Dates ==
    (FirstDate..(FirstDate + MaxDayOffset)) \cup {FirstDate + 7 * w : w \in 1..MaxWeek}

\* date.isoweekday() on a proleptic ordinal: Monday = 1 ... Sunday = 7
isoweekday(d) == IF d % 7 = 0 THEN 7 ELSE d % 7

DayNames == <<"monday", "tuesday", "wednesday", "thursday", "friday", "saturday", "sunday">>

\* the weekday fields callers write to: those of the days they query
WriteDays == {isoweekday(d) : d \in Dates}

-----------------------------------------------------------------------------
(* Inputs *)

\* the two ends of the range and their outer neighbours
StoreItems == {MinValue - 1, MinValue, MaxValue, MaxValue + 1}

\* the values around both ends of the range, and one inside it
MergeItems == StoreItems \cup {MinValue + 1}

\* the lists a caller supplies for a DayScheduleField
FieldInputs == SeqsUpTo(StoreItems, MaxLen)

\* the lists passed to apply_exception
MergeInputs == SeqsUpTo(MergeItems, MergeMaxLen)

\* a valid encoding: distinct values in [MinValue, MaxValue], in any order
IsValidEncoding(s) == validate(s) = {} /\ run_validators(s) = {}

\* the changes lists supplied while the exception table is studied
ChangeInputs == SeqsUpTo(StoreItems, MaxChangeLen)

\* the supplied lists that pass validation
ValidInputs == {v \in FieldInputs : IsValidEncoding(v)}

-----------------------------------------------------------------------------
(* Tables and instances *)

ScheduleIds == 1..NumSchedules

OwnIds == 1..NumOwn

ExcIds == 1..MaxExc

RecordIds == 1..MaxRecords

NoRow == [exists |-> FALSE]

NoObj == [exists |-> FALSE]

NoRet == [has |-> FALSE, date |-> 0, alias |-> 0, val |-> <<>>]

\* default=list for every day
DefaultDays == [i \in 1..7 |-> <<>>]

Outcome(name, errors) == [op |-> name, errors |-> errors]

Error(attr, code) == [attr |-> attr, code |-> code]

ExistingExceptions == {e \in ExcIds : exceptions[e].exists}

\* Model.full_clean on a Schedule: clean_fields over the seven day fields
Schedule_full_clean(days) ==
    UNION {{Error(DayNames[i], c) : c \in clean_field(days[i])} : i \in 1..7}

\* the row written by Model.save: pre_save of every field
Schedule_row(days) == [exists |-> TRUE, days |-> [i \in 1..7 |-> pre_save(days[i])]]

\* a constraint that is not enforced
one_exception_per_day_unchecked(self, schedule, day) == {}

\* UniqueConstraint(fields=["schedule", "day"], name="one_exception_per_day")
one_exception_per_day(self, schedule, day) ==
    IF \E e \in ExistingExceptions :
          e # self /\ exceptions[e].schedule = schedule /\ exceptions[e].day = day
    THEN {Error("__all__", "unique_together")}
    ELSE {}

\* Model.full_clean on a ScheduleException: the changes field, then the constraint
ScheduleException_full_clean(self, schedule, day, changes) ==
    {Error("changes", c) : c \in clean_field(changes)}
        \cup one_exception_per_day(self, schedule, day)

ScheduleException_row(schedule, day, changes) ==
    [exists |-> TRUE, schedule |-> schedule, day |-> day, changes |-> pre_save(changes)]

\* Model.full_clean on the one-field model
Record_full_clean(value) == {Error("field", c) : c \in clean_field(value)}

Record_row(value) == [exists |-> TRUE, field |-> pre_save(value)]

MergeIdle == UNCHANGED <<m_base, m_changes, m_result, m_pc>>

RecordsIdle == UNCHANGED <<records, rec>>

SchedulesIdle == UNCHANGED <<schedules, exceptions, obj, ret>>

AccountsIdle == UNCHANGED <<accounts, players, req, body, schedule_player, workers>>

UsersIdle == UNCHANGED <<users, auth>>

-----------------------------------------------------------------------------
(* Operations on a model with one DayScheduleField *)

\* ConcreteModelWithField._default_manager.create(field=value)
CreateRecord(rid, value) ==
    /\ ~records[rid].exists
    /\ \A r \in RecordIds : r < rid => records[r].exists
    /\ LET errors == Record_full_clean(value)
       IN /\ err' = Outcome("CreateRecord", errors)
          /\ IF errors = {}
             THEN /\ records' = [records EXCEPT ![rid] = Record_row(value)]
                  /\ rec' = [exists |-> TRUE, id |-> rid, field |-> value]
             ELSE \* the instance built by create() is never saved: it has no row
                  /\ records' = records
                  /\ rec' = [exists |-> TRUE, id |-> 0, field |-> value]
    /\ SchedulesIdle
    /\ MergeIdle
    /\ AccountsIdle
    /\ UsersIdle

\* obj.field = value; obj.save()
SaveRecord(value) ==
    /\ rec.exists
    /\ rec.id \in RecordIds
    /\ LET errors == Record_full_clean(value)
       IN /\ err' = Outcome("SaveRecord", errors)
          /\ rec' = [rec EXCEPT !.field = value]
          /\ records' = IF errors = {}
                        THEN [records EXCEPT ![rec.id] = Record_row(value)]
                        ELSE records
    /\ SchedulesIdle
    /\ MergeIdle
    /\ AccountsIdle
    /\ UsersIdle

\* obj.refresh_from_db()
RefreshRecord(rid) ==
    /\ records[rid].exists
    /\ rec' = [exists |-> TRUE, id |-> rid, field |-> records[rid].field]
    /\ err' = Outcome("RefreshRecord", {})
    /\ UNCHANGED records
    /\ SchedulesIdle
    /\ MergeIdle
    /\ AccountsIdle
    /\ UsersIdle

-----------------------------------------------------------------------------
(* Operations on schedules and their exceptions *)

\* ScheduleDetailsView.get_object: Schedule.objects.get_or_create(player=player)
GetOrCreateSchedule(sid) ==
    /\ schedules' = IF schedules[sid].exists
                    THEN schedules
                    ELSE [schedules EXCEPT ![sid] = Schedule_row(DefaultDays)]
    /\ err' = Outcome("GetOrCreateSchedule", Schedule_full_clean(DefaultDays))
    /\ ret' = NoRet
    /\ UNCHANGED <<exceptions, obj>>
    /\ RecordsIdle
    /\ MergeIdle
    /\ AccountsIdle
    /\ UsersIdle

\* Schedule.objects.create(player=..., <weekday>=value); a schedule id stands for
\* its player (OneToOneField), so only a player without a schedule gets one
CreateSchedule(sid, wd, value) ==
    /\ ~schedules[sid].exists
    /\ LET days == [DefaultDays EXCEPT ![wd] = value]
           errors == Schedule_full_clean(days)
       IN /\ err' = Outcome("CreateSchedule", errors)
          /\ IF errors = {}
             THEN /\ schedules' = [schedules EXCEPT ![sid] = Schedule_row(days)]
                  /\ obj' = [exists |-> TRUE, id |-> sid, days |-> days]
             ELSE UNCHANGED <<schedules, obj>>
    /\ ret' = NoRet
    /\ UNCHANGED exceptions
    /\ RecordsIdle
    /\ MergeIdle
    /\ AccountsIdle
    /\ UsersIdle

\* Schedule.objects.get(...) / refresh_from_db(): a fresh instance of the row
FetchSchedule(sid) ==
    /\ schedules[sid].exists
    /\ obj' = [exists |-> TRUE, id |-> sid, days |-> schedules[sid].days]
    /\ ret' = NoRet
    /\ err' = Outcome("FetchSchedule", {})
    /\ UNCHANGED <<schedules, exceptions>>
    /\ RecordsIdle
    /\ MergeIdle
    /\ AccountsIdle
    /\ UsersIdle

\* obj.<weekday> = value; obj.save()
SaveSchedule(wd, value) ==
    /\ obj.exists
    /\ LET days == [obj.days EXCEPT ![wd] = value]
           errors == Schedule_full_clean(days)
       IN /\ err' = Outcome("SaveSchedule", errors)
          /\ obj' = [obj EXCEPT !.days = days]
          /\ schedules' = IF errors = {}
                          THEN [schedules EXCEPT ![obj.id] = Schedule_row(days)]
                          ELSE schedules
    /\ ret' = NoRet
    /\ UNCHANGED exceptions
    /\ RecordsIdle
    /\ MergeIdle
    /\ AccountsIdle
    /\ UsersIdle

\* a filter on the day alone, over the exceptions of every schedule
exception_filter_any_schedule(sid, date) ==
    {e \in ExistingExceptions : exceptions[e].day = date}

\* self.exceptions.filter(day=date)
exception_filter(sid, date) ==
    {e \in ExistingExceptions : exceptions[e].schedule = sid /\ exceptions[e].day = date}

\* ordered_days[date.isoweekday() - 1], as an index into the 1-based tuple
base_schedule_index(date) == (isoweekday(date) - 1) + 1

\* the exception path replaced by returning the exception's changes
day_result_overwrite(base_schedule, changes) == sorted(changes)

\* exception.get().apply_exception(base_schedule)
day_result(base_schedule, changes) == apply_exception(base_schedule, changes)

\* Schedule.get_day_schedule(date) on the instance the caller holds
GetDaySchedule(date) ==
    /\ obj.exists
    /\ LET wd == base_schedule_index(date)
           base_schedule == obj.days[wd]
           exception == exception_filter(obj.id, date)
       IN IF exception = {}
          THEN /\ ret' = [has |-> TRUE, date |-> date, alias |-> wd, val |-> base_schedule]
               /\ err' = Outcome("GetDaySchedule", {})
          ELSE IF Cardinality(exception) > 1
          THEN /\ ret' = NoRet
               /\ err' = Outcome("GetDaySchedule",
                                 {Error("__all__", "MultipleObjectsReturned")})
          ELSE /\ ret' = [has |-> TRUE, date |-> date, alias |-> 0,
                          val |-> day_result(base_schedule,
                                     exceptions[CHOOSE e \in exception : TRUE].changes)]
               /\ err' = Outcome("GetDaySchedule", {})
    /\ UNCHANGED <<schedules, exceptions, obj>>
    /\ RecordsIdle
    /\ MergeIdle
    /\ AccountsIdle
    /\ UsersIdle

\* ScheduleException.objects.create(schedule=..., day=..., changes=...)
CreateException(eid, sid, day, changes) ==
    /\ ~exceptions[eid].exists
    /\ \A e \in ExcIds : e < eid => exceptions[e].exists
    /\ schedules[sid].exists
    /\ LET errors == ScheduleException_full_clean(eid, sid, day, changes)
       IN /\ err' = Outcome("CreateException", errors)
          /\ exceptions' = IF errors = {}
                           THEN [exceptions EXCEPT
                                    ![eid] = ScheduleException_row(sid, day, changes)]
                           ELSE exceptions
    /\ ret' = NoRet
    /\ UNCHANGED <<schedules, obj>>
    /\ RecordsIdle
    /\ MergeIdle
    /\ AccountsIdle
    /\ UsersIdle

\* exception.day = day; exception.changes = changes; exception.save()
UpdateException(eid, day, changes) ==
    /\ exceptions[eid].exists
    /\ LET sid == exceptions[eid].schedule
           errors == ScheduleException_full_clean(eid, sid, day, changes)
       IN /\ err' = Outcome("UpdateException", errors)
          /\ exceptions' = IF errors = {}
                           THEN [exceptions EXCEPT
                                    ![eid] = ScheduleException_row(sid, day, changes)]
                           ELSE exceptions
    /\ ret' = NoRet
    /\ UNCHANGED <<schedules, obj>>
    /\ RecordsIdle
    /\ MergeIdle
    /\ AccountsIdle
    /\ UsersIdle

\* exception.delete()
DeleteException(eid) ==
    /\ exceptions[eid].exists
    /\ exceptions' = [exceptions EXCEPT ![eid] = NoRow]
    /\ err' = Outcome("DeleteException", {})
    /\ ret' = NoRet
    /\ UNCHANGED <<schedules, obj>>
    /\ RecordsIdle
    /\ MergeIdle
    /\ AccountsIdle
    /\ UsersIdle

\* the caller changes the list it was handed: append, pop or reverse
MutateReturned(new) ==
    /\ ret.has
    /\ new # ret.val
    /\ ret' = [ret EXCEPT !.val = new]
    /\ obj' = IF ret.alias = 0 THEN obj ELSE [obj EXCEPT !.days[ret.alias] = new]
    /\ err' = Outcome("MutateReturned", {})
    /\ UNCHANGED <<schedules, exceptions>>
    /\ RecordsIdle
    /\ MergeIdle
    /\ AccountsIdle
    /\ UsersIdle

\* what append(x), pop() and reverse() make of the list s
Mutations(s) ==
    {Append(s, x) : x \in IF Len(s) < MaxLen THEN StoreItems ELSE {}}
        \cup (IF s = <<>> THEN {} ELSE {SubSeq(s, 1, Len(s) - 1)})
        \cup {[i \in DOMAIN s |-> s[Len(s) + 1 - i]]}

-----------------------------------------------------------------------------
(* Accounts and players *)

\* users 1..Prefilled own the accounts created earlier; the others send requests
UserIds == 1..(Prefilled + NumUsers)

ActiveUsers == (Prefilled + 1)..(Prefilled + NumUsers)

\* accounts 1..Prefilled are the ones created earlier
AccountIds == 1..(Prefilled + MaxAccounts)

ActiveAccounts == (Prefilled + 1)..(Prefilled + MaxAccounts)

GameWorldIds == 1..NumGameWorlds

RealmIds == 1..NumRealms

\* realm = None
NoRealm == 0

\* a key the request data does not hold
Missing == 0

NoName == ""

\* a ValidationError raised without a dict is attached to no field
NON_FIELD_ERRORS == "__all__"

\* realm.game_world
Realm_game_world(r) == ((r - 1) % NumGameWorlds) + 1

Account_row(name, owner, game_world, realm) ==
    [exists |-> TRUE, name |-> name, owner |-> owner, game_world |-> game_world,
     realm |-> realm]

Player_row(user, account) == [user |-> user, account |-> account]

Request(op, user, account, target, game_world, realm, name) ==
    [op |-> op, user |-> user, account |-> account, target |-> target,
     game_world |-> game_world, realm |-> realm, name |-> name]

NoReq == Request("none", 0, 0, 0, 0, 0, NoName)

\* what an operation leaves behind: its errors and the two tables
Result(errors, accts, plrs) == [errors |-> errors, accounts |-> accts, players |-> plrs]

\* account.players.filter(user=user).exists()
HasPlayer(plrs, user, account) == BagIn(Player_row(user, account), plrs)

\* realm.accounts.count()
realm_accounts_count(accts, realm) ==
    Cardinality({a \in AccountIds : accts[a].exists /\ accts[a].realm = realm})

validate_realm_matches(self) ==
    IF self.realm = NoRealm THEN {}
    ELSE IF self.game_world # Realm_game_world(self.realm)
         THEN {Error(NON_FIELD_ERRORS, "game_world_mismatch")}
         ELSE {}

\* the realm is full only above the limit
validate_realm_size_above(accts, self) ==
    IF self.realm = NoRealm THEN {}
    ELSE IF realm_accounts_count(accts, self.realm) > RealmLimit
         THEN {Error("realm", "realm_full")}
         ELSE {}

validate_realm_size(accts, self) ==
    IF self.realm = NoRealm THEN {}
    ELSE IF realm_accounts_count(accts, self.realm) >= RealmLimit
         THEN {Error("realm", "realm_full")}
         ELSE {}

\* only the players of the same account are looked at
validate_user_unique_per_account(accts, plrs, user, account) ==
    IF HasPlayer(plrs, user, account) THEN {Error("user", "multi_account")} ELSE {}

\* self.account.game_world.accounts.filter(players__user=self.user).exists()
validate_user_unique_per_game_world(accts, plrs, user, account) ==
    IF \E a \in AccountIds :
          /\ accts[a].exists
          /\ accts[a].game_world = accts[account].game_world
          /\ HasPlayer(plrs, user, a)
    THEN {Error("user", "multi_account")}
    ELSE {}

\* Player(user=user, account=account).save()
Player_save(accts, plrs, user, account) ==
    LET errors == validate_user_unique_per_game_world(accts, plrs, user, account)
    IN Result(errors, accts,
              IF errors = {} THEN plrs (+) SetToBag({Player_row(user, account)}) ELSE plrs)

\* the player is looked up and never created
get_or_create_get_only(accts, plrs, user, account) == Result({}, accts, plrs)

\* Player.objects.get_or_create(user=user, account=account)
get_or_create(accts, plrs, user, account) ==
    IF CopiesIn(Player_row(user, account), plrs) > 1
    THEN Result({Error(NON_FIELD_ERRORS, "MultipleObjectsReturned")}, accts, plrs)
    ELSE IF HasPlayer(plrs, user, account)
         THEN Result({}, accts, plrs)
         ELSE Player_save(accts, plrs, user, account)

\* the writes made before the exception stay
atomic_no_rollback(before, after) == after

\* @atomic: an exception inside the block undoes the writes of the block
atomic(before, after) ==
    IF after.errors = {} THEN after
    ELSE Result(after.errors, before.accounts, before.players)

\* Account.save of the instance `self` whose primary key is id
Account_save(accts, plrs, id, self) ==
    LET before == Result({}, accts, plrs)
        written == [accts EXCEPT ![id] = self]
        matches == validate_realm_matches(self)
        size == validate_realm_size(accts, self)
    IN IF matches # {} THEN Result(matches, accts, plrs)
       ELSE IF size # {} THEN Result(size, accts, plrs)
       ELSE atomic(before, get_or_create(written, plrs, self.owner, id))

\* Account.join_account: Player.objects.create(user=user, account=self)
join_account(accts, plrs, id, user) == Player_save(accts, plrs, user, id)

\* the owner is removed like any other player
leave_account_owner_too(accts, plrs, id, user) ==
    IF ~HasPlayer(plrs, user, id)
    THEN Result({Error(NON_FIELD_ERRORS, "not_player")}, accts, plrs)
    ELSE Result({}, accts, plrs (-) SetToBag({Player_row(user, id)}))

\* Account.leave_account
leave_account(accts, plrs, id, user) ==
    IF user = accts[id].owner
    THEN Result({Error("owner", "failed_remove_owner")}, accts, plrs)
    ELSE IF ~HasPlayer(plrs, user, id)
         THEN Result({Error(NON_FIELD_ERRORS, "not_player")}, accts, plrs)
         ELSE Result({}, accts, plrs (-) SetToBag({Player_row(user, id)}))

\* any user is accepted as the new owner
change_owner_anyone(accts, plrs, id, new_owner) ==
    IF accts[id].owner = new_owner
    THEN Result({}, accts, plrs)
    ELSE Account_save(accts, plrs, id, [accts[id] EXCEPT !.owner = new_owner])

\* Account.change_owner
change_owner(accts, plrs, id, new_owner) ==
    IF accts[id].owner = new_owner
    THEN Result({}, accts, plrs)
    ELSE IF ~HasPlayer(plrs, new_owner, id)
         THEN Result({Error("owner", "bad_owner")}, accts, plrs)
         ELSE Account_save(accts, plrs, id, [accts[id] EXCEPT !.owner = new_owner])

\* Account.delete: the players of the account go with it (on_delete=CASCADE)
Account_delete(accts, plrs, id) ==
    LET kept == {r \in BagToSet(plrs) : r.account # id}
    IN Result({}, [accts EXCEPT ![id] = NoRow], [r \in kept |-> plrs[r]])

\* every account, whoever plays on it
get_queryset_all(accts, plrs, user) ==
    SetToBag({a \in DOMAIN accts : accts[a].exists})

\* get_queryset of the account views, Account.objects.filter(players__user=user):
\* the join yields an account once for each of the user's player rows on it
get_queryset(accts, plrs, user) ==
    LET ids == {a \in DOMAIN accts : accts[a].exists /\ HasPlayer(plrs, user, a)}
    IN [a \in ids |-> CopiesIn(Player_row(user, a), plrs)]

\* TargetAccountMixin.get_object: the account is looked up in get_queryset
get_object(accts, plrs, user, id) ==
    IF BagIn(id, get_queryset(accts, plrs, user))
    THEN {}
    ELSE {Error(NON_FIELD_ERRORS, "not_found")}

\* every player of the account passes
validate_owner_any_player(accts, plrs, user, id) == get_object(accts, plrs, user, id)

\* TargetAccountMixin.validate_owner
validate_owner(accts, plrs, user, id) ==
    LET found == get_object(accts, plrs, user, id)
    IN IF found # {} THEN found
       ELSE IF accts[id].owner # user
            THEN {Error("user", "permission_denied")}
            ELSE {}

\* AccountDetailsSerializer: owner is the one writable field, and a PUT requires it
required_owner(owner) == IF owner = Missing THEN {Error("owner", "required")} ELSE {}

\* the data of a PUT: an owner, a name (a read-only field), or neither
UpdateData ==
    {[owner |-> u, name |-> NoName] : u \in ActiveUsers \cup {Missing}}
        \cup {[owner |-> Missing, name |-> "_new_name"]}

\* the next Account row gets the lowest free id
IsNextId(id) ==
    /\ ~accounts[id].exists
    /\ \A a \in ActiveAccounts : a < id => accounts[a].exists

\* a response that carries nothing read from the tables
NoBody == [kind |-> "none"]

\* the schedule is not reached through a player (or there is no schedule)
NoPlayer == Player_row(0, 0)

\* the state a request leaves in the tables and in its response; one request is
\* served at a time
ServeTables(request, errors, accts, plrs, scheds, sched_player, content) ==
    /\ req = NoReq
    /\ req' = request
    /\ err' = Outcome(request.op, errors)
    /\ accounts' = accts
    /\ players' = plrs
    /\ schedules' = scheds
    /\ schedule_player' = sched_player
    /\ exceptions' = [e \in ExcIds |->
                        IF exceptions[e].exists /\ ~scheds[exceptions[e].schedule].exists
                        THEN NoRow ELSE exceptions[e]]
    /\ body' = content
    /\ UNCHANGED <<obj, ret, workers>>
    /\ UsersIdle
    /\ RecordsIdle
    /\ MergeIdle

\* the schedules whose player row is gone (Schedule.player has on_delete=CASCADE)
Orphaned(plrs) ==
    {s \in ScheduleIds : schedule_player[s] # NoPlayer /\ ~BagIn(schedule_player[s], plrs)}

\* the state an account request leaves: deleted players take their schedules along
Serve(request, result, content) ==
    ServeTables(request, result.errors, result.accounts, result.players,
                [s \in ScheduleIds |->
                   IF s \in Orphaned(result.players) THEN NoRow ELSE schedules[s]],
                [s \in ScheduleIds |->
                   IF s \in Orphaned(result.players) THEN NoPlayer ELSE schedule_player[s]],
                content)

\* the state an account operation leaves
Commit(request, result) == Serve(request, result, NoBody)

\* the response (or the exception) has reached the caller: the request is over
Respond ==
    /\ req # NoReq
    /\ req' = NoReq
    /\ err' = Outcome("none", {})
    /\ body' = NoBody
    /\ UNCHANGED <<accounts, players, schedule_player, workers>>
    /\ UsersIdle
    /\ SchedulesIdle
    /\ RecordsIdle
    /\ MergeIdle

\* ListCreateAccountView.get: the serialized get_queryset
ListCreateAccountView_get(user) ==
    \* AuthenticatedUserMixin: the request comes from a logged-in user
    /\ user \in UserIds
    /\ Serve(Request("ListCreateAccountView_get", user, 0, 0, 0, 0, NoName),
             Result({}, accounts, players),
             [kind |-> "list", accounts |-> get_queryset(accounts, players, user)])

\* AccountDetailsView.get (RetrieveModelMixin.retrieve): the serialized get_object
AccountDetailsView_retrieve(user, id) ==
    \* AuthenticatedUserMixin: the request comes from a logged-in user
    /\ user \in UserIds
    /\ LET found == get_object(accounts, players, user, id)
       IN Serve(Request("AccountDetailsView_retrieve", user, id, 0, 0, 0, NoName),
                Result(found, accounts, players),
                IF found # {} THEN NoBody
                ELSE [kind |-> "account", id |-> id, account |-> accounts[id]])

\* Account.objects.create(name=..., owner=..., game_world=..., realm=...)
CreateAccount(id, owner, game_world, realm) ==
    /\ IsNextId(id)
    /\ Commit(Request("CreateAccount", owner, id, 0, game_world, realm, NoName),
              Account_save(accounts, players, id,
                           Account_row("_name", owner, game_world, realm)))

\* ListCreateAccountView.post: owner is the requesting user, realm is read-only
ListCreateAccountView_post(user, id, game_world) ==
    /\ IsNextId(id)
    /\ Commit(Request("ListCreateAccountView_post", user, id, 0, game_world, NoRealm, NoName),
              Account_save(accounts, players, id,
                           Account_row("_name", user, game_world, NoRealm)))

\* account.owner = owner; account.realm = realm; account.save()
SaveAccount(id, owner, realm) ==
    /\ accounts[id].exists
    /\ Commit(Request("SaveAccount", owner, id, 0, accounts[id].game_world, realm, NoName),
              Account_save(accounts, players, id,
                           [accounts[id] EXCEPT !.owner = owner, !.realm = realm]))

\* JoinAccountView.post: JoinAccountSerializer.create
JoinAccountView_post(user, id) ==
    \* AuthenticatedUserMixin: the request comes from a logged-in user
    /\ user \in UserIds
    /\ Commit(Request("JoinAccountView_post", user, id, 0, 0, 0, NoName),
              IF ~accounts[id].exists
              THEN Result({Error(NON_FIELD_ERRORS, "not_found")}, accounts, players)
              ELSE join_account(accounts, players, id, user))

\* LeaveAccountView.destroy
LeaveAccountView_destroy(user, id) ==
    \* AuthenticatedUserMixin: the request comes from a logged-in user
    /\ user \in UserIds
    /\ Commit(Request("LeaveAccountView_destroy", user, id, 0, 0, 0, NoName),
              LET found == get_object(accounts, players, user, id)
              IN IF found # {} THEN Result(found, accounts, players)
                 ELSE leave_account(accounts, players, id, user))

\* RemoveUserFromAccountView.destroy
RemoveUserFromAccountView_destroy(user, id, target) ==
    \* AuthenticatedUserMixin: the request comes from a logged-in user
    /\ user \in UserIds
    /\ Commit(Request("RemoveUserFromAccountView_destroy", user, id, target, 0, 0, NoName),
              LET denied == validate_owner(accounts, players, user, id)
              IN IF denied # {} THEN Result(denied, accounts, players)
                 ELSE leave_account(accounts, players, id, target))

\* AccountDetailsView.destroy
AccountDetailsView_destroy(user, id) ==
    \* AuthenticatedUserMixin: the request comes from a logged-in user
    /\ user \in UserIds
    /\ Commit(Request("AccountDetailsView_destroy", user, id, 0, 0, 0, NoName),
              LET denied == validate_owner(accounts, players, user, id)
              IN IF denied # {} THEN Result(denied, accounts, players)
                 ELSE Account_delete(accounts, players, id))

\* AccountDetailsView.update (PUT): validate_owner, the serializer's validation,
\* then AccountDetailsSerializer.update
AccountDetailsView_update(user, id, data) ==
    \* AuthenticatedUserMixin: the request comes from a logged-in user
    /\ user \in UserIds
    /\ Commit(Request("AccountDetailsView_update", user, id, data.owner, 0, 0, data.name),
              LET denied == validate_owner(accounts, players, user, id)
                  invalid == required_owner(data.owner)
              IN IF denied # {} THEN Result(denied, accounts, players)
                 ELSE IF invalid # {} THEN Result(invalid, accounts, players)
                 ELSE IF data.owner = Missing THEN Result({}, accounts, players)
                 ELSE change_owner(accounts, players, id, data.owner))


\* the schedule rows of the player
schedules_of(sched_player, player) == {s \in ScheduleIds : sched_player[s] = player}

\* a new row whether or not the player has a schedule
Schedule_get_or_create_always(scheds, sched_player, player) ==
    LET id == CHOOSE s \in ScheduleIds :
                 (\E free \in ScheduleIds : ~scheds[free].exists) => ~scheds[s].exists
    IN [id |-> id,
        schedules |-> [scheds EXCEPT ![id] = Schedule_row(DefaultDays)],
        schedule_player |-> [sched_player EXCEPT ![id] = player]]

\* Schedule.objects.get_or_create(player=player): the player's row, or a new row with
\* the default of every day field
Schedule_get_or_create(scheds, sched_player, player) ==
    IF schedules_of(sched_player, player) # {}
    THEN [id |-> CHOOSE s \in schedules_of(sched_player, player) : TRUE,
          schedules |-> scheds, schedule_player |-> sched_player]
    ELSE LET id == CHOOSE s \in ScheduleIds : ~scheds[s].exists
         IN [id |-> id,
             schedules |-> [scheds EXCEPT ![id] = Schedule_row(DefaultDays)],
             schedule_player |-> [sched_player EXCEPT ![id] = player]]

\* the Schedule table has a free row, if the request is to create one
RoomForSchedule(user, id) ==
    \/ ~accounts[id].exists
    \/ ~HasPlayer(players, user, id)
    \/ schedules_of(schedule_player, Player_row(user, id)) # {}
    \/ \E s \in ScheduleIds : ~schedules[s].exists

\* ScheduleDetailsView.get_object: the account, the user's player on it, the schedule
ScheduleDetailsView_get_object(user, id) ==
    IF ~accounts[id].exists \/ ~HasPlayer(players, user, id)
    THEN [errors |-> {Error(NON_FIELD_ERRORS, "not_found")}, id |-> 0,
          schedules |-> schedules, schedule_player |-> schedule_player]
    ELSE [errors |-> {}] @@
         Schedule_get_or_create(schedules, schedule_player, Player_row(user, id))

\* the serialized schedule
ScheduleBody(scheds, id) == [kind |-> "schedule", id |-> id, days |-> scheds[id].days]

\* ScheduleDetailsView.get: the serialized get_object
ScheduleDetailsView_retrieve(user, id) ==
    /\ user \in UserIds
    /\ RoomForSchedule(user, id)
    /\ LET found == ScheduleDetailsView_get_object(user, id)
       IN ServeTables(Request("ScheduleDetailsView_retrieve", user, id, 0, 0, 0, NoName),
                      found.errors, accounts, players, found.schedules,
                      found.schedule_player,
                      IF found.errors # {} THEN NoBody
                      ELSE ScheduleBody(found.schedules, found.id))

\* the values a schedule update carries for a day
ScheduleUpdates == {<<>>, <<MaxValue, MinValue>>}

\* ScheduleDetailsView.put: get_object, then the day is written and the schedule saved
ScheduleDetailsView_update(user, id, wd, value) ==
    /\ user \in UserIds
    /\ RoomForSchedule(user, id)
    /\ LET found == ScheduleDetailsView_get_object(user, id)
           days == [found.schedules[found.id].days EXCEPT ![wd] = value]
           saved == [found.schedules EXCEPT ![found.id] = Schedule_row(days)]
       IN IF found.errors # {}
          THEN ServeTables(Request("ScheduleDetailsView_update", user, id, 0, 0, 0, NoName),
                           found.errors, accounts, players, found.schedules,
                           found.schedule_player, NoBody)
          ELSE IF Schedule_full_clean(days) # {}
          THEN ServeTables(Request("ScheduleDetailsView_update", user, id, 0, 0, 0, NoName),
                           Schedule_full_clean(days), accounts, players, found.schedules,
                           found.schedule_player, NoBody)
          ELSE ServeTables(Request("ScheduleDetailsView_update", user, id, 0, 0, 0, NoName),
                           {}, accounts, players, saved, found.schedule_player,
                           ScheduleBody(saved, found.id))

-----------------------------------------------------------------------------
(* Requests served at the same time: every query and every insert of a request is *)
(* a step of its own, and the steps of two requests interleave                    *)

Workers == 1..NumWorkers

RacingUsers == (Prefilled + 1)..(Prefilled + NumRacingUsers)

Worker(pc, op, user, account, game_world, realm, errors) ==
    [pc |-> pc, op |-> op, user |-> user, account |-> account,
     game_world |-> game_world, realm |-> realm, errors |-> errors]

\* the worker serves no request
NoWorker == Worker("idle", "none", 0, 0, 0, 0, {})

\* the request ends with these errors (or, without errors, with its response)
Ended(worker, errors) == [worker EXCEPT !.pc = "done", !.errors = errors]

\* the free Account ids
FreeIds == {a \in ActiveAccounts : ~accounts[a].exists}

\* the accounts in-flight creations will take
Reserved == Cardinality({w \in Workers : workers[w].op = "create" /\ workers[w].pc # "done"})

WorkersOnly ==
    /\ UNCHANGED <<req, body, schedule_player, err>>
    /\ UsersIdle
    /\ SchedulesIdle
    /\ RecordsIdle
    /\ MergeIdle

\* join_account -> Player.save: validate_user_unique_per_game_world, a query
JoinAccount_validate(w, user, id) ==
    /\ workers[w].pc = "idle"
    /\ accounts[id].exists
    /\ LET request == Worker("validated", "join", user, id, accounts[id].game_world, 0, {})
           errors == validate_user_unique_per_game_world(accounts, players, user, id)
       IN workers' = [workers EXCEPT ![w] =
                         IF errors # {} THEN Ended(request, errors) ELSE request]
    /\ UNCHANGED <<accounts, players>>
    /\ WorkersOnly

\* join_account -> Player.save: super().save(), the insert
JoinAccount_insert(w) ==
    /\ workers[w].pc = "validated"
    /\ workers[w].op = "join"
    /\ players' = players (+) SetToBag({Player_row(workers[w].user, workers[w].account)})
    /\ workers' = [workers EXCEPT ![w] = Ended(workers[w], {})]
    /\ UNCHANGED accounts
    /\ WorkersOnly

\* Account.save of a new account: validate_realm_matches, then validate_realm_size,
\* a query
Account_save_validate(w, owner, game_world, realm) ==
    /\ workers[w].pc = "idle"
    /\ Cardinality(FreeIds) > Reserved
    /\ LET self == Account_row("_name", owner, game_world, realm)
           request == Worker("validated", "create", owner, 0, game_world, realm, {})
           matches == validate_realm_matches(self)
           size == validate_realm_size(accounts, self)
       IN workers' = [workers EXCEPT ![w] =
                         IF matches # {} THEN Ended(request, matches)
                         ELSE IF size # {} THEN Ended(request, size)
                         ELSE request]
    /\ UNCHANGED <<accounts, players>>
    /\ WorkersOnly

\* Account.save: the account is inserted inside the transaction, then get_or_create
\* of the owner's player runs validate_user_unique_per_game_world, a query that sees
\* what is committed and the transaction's own account
Account_save_get_or_create(w) ==
    /\ workers[w].pc = "validated"
    /\ workers[w].op = "create"
    /\ LET id == CHOOSE a \in FreeIds : \A b \in FreeIds : a <= b
           self == Account_row("_name", workers[w].user, workers[w].game_world,
                               workers[w].realm)
           errors == validate_user_unique_per_game_world(
                         [accounts EXCEPT ![id] = self], players, workers[w].user, id)
       IN workers' = [workers EXCEPT ![w] =
                         IF errors # {} THEN Ended(workers[w], errors)
                         ELSE [workers[w] EXCEPT !.pc = "checked"]]
    /\ UNCHANGED <<accounts, players>>
    /\ WorkersOnly

\* Account.save: the player is inserted and the transaction commits
Account_save_commit(w) ==
    /\ workers[w].pc = "checked"
    /\ LET id == CHOOSE a \in FreeIds : \A b \in FreeIds : a <= b
       IN /\ accounts' = [accounts EXCEPT ![id] =
                             Account_row("_name", workers[w].user, workers[w].game_world,
                                         workers[w].realm)]
          /\ players' = players (+) SetToBag({Player_row(workers[w].user, id)})
          /\ workers' = [workers EXCEPT ![w] = [Ended(workers[w], {}) EXCEPT !.account = id]]
    /\ WorkersOnly

\* the response (or the exception) of the worker's request has reached its caller
Worker_respond(w) ==
    /\ workers[w].pc = "done"
    /\ workers' = [workers EXCEPT ![w] = NoWorker]
    /\ UNCHANGED <<accounts, players>>
    /\ WorkersOnly

-----------------------------------------------------------------------------
(* Users and the Discord login *)

\* a key the data does not hold, or None
Null == "<null>"

\* usernames people register with
RegisterNames == {"a", "a_1", "a_2"}

\* usernames and ids Discord answers with
DiscordNames == {"a", "b"}

DiscordIds == {"1", "2"}

\* the code a login request may carry
Codes == {Null, "", "_code"}

\* Python's truth value of an optional string
truthy(value) == value # Null /\ value # ""

User_row(username, discord_id, is_active, is_deleted) ==
    [username |-> username, discord_id |-> discord_id, is_active |-> is_active,
     is_deleted |-> is_deleted]

\* User.objects.filter(username=username)
filter_username(table, username) == {u \in BagToSet(table) : u.username = username}

\* no row is ever found
filter_discord_id_none(table, discord_id) == {}

\* User.objects.filter(discord_id=discord_id)
filter_discord_id(table, discord_id) == {u \in BagToSet(table) : u.discord_id = discord_id}

\* discord_username + f"_{counter}"
suffixed(discord_username, counter) == discord_username \o "_" \o ToString(counter)

\* UserManager.create_user: a new active row; username and discord_id are unique columns,
\* the insert of a taken value raises IntegrityError and stores nothing
create_user(table, username, discord_id) ==
    IF \/ filter_username(table, username) # {}
       \/ (discord_id # Null /\ filter_discord_id(table, discord_id) # {})
    THEN table
    ELSE table (+) SetToBag({User_row(username, discord_id, TRUE, FALSE)})

\* the order authenticate() runs its steps in
LoginSteps ==
    <<"exchange_discord_code", "get_discord_data", "get_user_for_discord_id",
      "user_can_authenticate">>

\* no login is being served
NoAuth ==
    [pc |-> "idle", steps |-> <<>>, code |-> Null, post_ok |-> FALSE, access_token |-> Null,
     get_ok |-> FALSE, discord_id |-> Null, discord_username |-> Null, counter |-> 0,
     user |-> Null, tokens |-> FALSE, error |-> Null]

\* the login ends: AuthenticationFailed or a field's ValidationError
Fail(a, code) == [a EXCEPT !.pc = "done", !.error = code]

Ran(a, step) == [a EXCEPT !.steps = Append(a.steps, step)]

UsersOnly ==
    /\ AccountsIdle
    /\ SchedulesIdle
    /\ RecordsIdle
    /\ MergeIdle

\* DiscordLoginSerializer: the code field (a required, non-blank CharField), then
\* validate(), which calls authenticate(request, discord_code=code)
DiscordLoginSerializer_validate(code) ==
    /\ auth.pc = "idle"
    /\ auth' = LET a == [NoAuth EXCEPT !.code = code]
               IN IF code = Null THEN Fail(a, "required")
                  ELSE IF code = "" THEN Fail(a, "blank")
                  ELSE IF ~truthy(code) THEN Fail(a, "no_active_account")
                  ELSE [a EXCEPT !.pc = "exchange_discord_code"]
    /\ UNCHANGED <<users, err>>
    /\ UsersOnly

\* exchange_discord_code: the token request succeeds or not
exchange_discord_code(ok) ==
    /\ auth.pc = "exchange_discord_code"
    /\ auth' = LET a == [Ran(auth, "exchange_discord_code") EXCEPT !.post_ok = ok]
               IN IF ~ok THEN Fail(a, "no_active_account")
                  ELSE [a EXCEPT !.pc = "get_discord_data",
                                 !.access_token = "_discord_access_token"]
    /\ UNCHANGED <<users, err>>
    /\ UsersOnly

\* get_discord_data: the user-data request succeeds or not, with or without id and username
get_discord_data(ok, discord_id, username) ==
    /\ auth.pc = "get_discord_data"
    \* the table has room for the user this login may create
    /\ BagCardinality(users) < MaxTableUsers \/ filter_discord_id(users, discord_id) # {}
    /\ auth' = LET a == [Ran(auth, "get_discord_data") EXCEPT !.get_ok = ok]
               IN IF ~ok THEN Fail(a, "no_active_account")
                  ELSE LET data == [a EXCEPT !.discord_id = discord_id,
                                             !.discord_username = username]
                       IN IF ~truthy(discord_id) \/ ~truthy(username)
                          THEN Fail(data, "no_active_account")
                          ELSE [data EXCEPT !.pc = "get_user_for_discord_id"]
    /\ UNCHANGED <<users, err>>
    /\ UsersOnly

\* the user create_user returned, or its IntegrityError
Created(a, username) ==
    IF create_user(users, username, a.discord_id) = users
    THEN Fail(a, "IntegrityError")
    ELSE [a EXCEPT !.pc = "user_can_authenticate", !.user = username]

\* User.get_user_for_discord_id up to the loop: the user of the id, or a new user under
\* the Discord username when it is free
get_user_for_discord_id ==
    /\ auth.pc = "get_user_for_discord_id"
    /\ LET a == Ran(auth, "get_user_for_discord_id")
           found == filter_discord_id(users, auth.discord_id)
       IN IF found # {}
          THEN /\ auth' = [a EXCEPT !.pc = "user_can_authenticate",
                                    !.user = (CHOOSE u \in found : TRUE).username]
               /\ users' = users
          ELSE IF filter_username(users, auth.discord_username) = {}
          THEN /\ auth' = Created(a, auth.discord_username)
               /\ users' = create_user(users, auth.discord_username, auth.discord_id)
          ELSE /\ auth' = [a EXCEPT !.pc = "search", !.counter = 1]
               /\ users' = users
    /\ UNCHANGED err
    /\ UsersOnly

\* one test of the while loop of get_user_for_discord_id, and the create_user after it
get_user_for_discord_id_loop ==
    /\ auth.pc = "search"
    /\ LET username == suffixed(auth.discord_username, auth.counter)
       IN IF filter_username(users, username) # {}
          THEN /\ auth' = [auth EXCEPT !.counter = auth.counter + 1]
               /\ users' = users
          ELSE /\ auth' = Created(auth, username)
               /\ users' = create_user(users, username, auth.discord_id)
    /\ UNCHANGED err
    /\ UsersOnly

\* every user passes
can_authenticate_anyone(user) == TRUE

\* AuthenticationBackend.user_can_authenticate: not soft-deleted, and active
can_authenticate(user) == ~user.is_deleted /\ user.is_active

\* user_can_authenticate(user), then the tokens of DiscordLoginSerializer.validate
user_can_authenticate ==
    /\ auth.pc = "user_can_authenticate"
    /\ auth' = LET a == Ran(auth, "user_can_authenticate")
                   found == filter_username(users, auth.user)
               IN IF found = {} \/ ~can_authenticate(CHOOSE u \in found : TRUE)
                  THEN Fail(a, "no_active_account")
                  ELSE [a EXCEPT !.pc = "done", !.tokens = TRUE]
    /\ UNCHANGED <<users, err>>
    /\ UsersOnly

\* the tokens (or the error) have reached the caller: the login is over
DiscordLogin_respond ==
    /\ auth.pc = "done"
    /\ auth' = NoAuth
    /\ UNCHANGED <<users, err>>
    /\ UsersOnly

\* UserRegisterSerializer: the username must be free, then create()
UserRegisterSerializer_create(username) ==
    /\ auth.pc = "idle"
    /\ BagCardinality(users) < MaxTableUsers
    /\ IF filter_username(users, username) # {}
       THEN /\ err' = Outcome("UserRegisterSerializer_create", {Error("username", "unique")})
            /\ users' = users
       ELSE /\ err' = Outcome("UserRegisterSerializer_create", {})
            /\ users' = create_user(users, username, Null)
    /\ UNCHANGED auth
    /\ UsersOnly

\* user.is_active = False, or user.soft_delete(), on a user that logs in through Discord
SetUserStatus(user, is_active, is_deleted) ==
    /\ auth.pc = "idle"
    /\ BagIn(user, users)
    /\ user.discord_id # Null
    /\ users' = (users (-) SetToBag({user}))
                   (+) SetToBag({[user EXCEPT !.is_active = is_active,
                                              !.is_deleted = is_deleted]})
    /\ err' = Outcome("SetUserStatus", {})
    /\ UNCHANGED auth
    /\ UsersOnly

-----------------------------------------------------------------------------
(* Specifications *)

UsersEmpty ==
    /\ users = EmptyBag
    /\ auth = NoAuth

AccountsEmpty ==
    /\ accounts = [a \in AccountIds |-> NoRow]
    /\ players = EmptyBag
    /\ req = NoReq
    /\ body = NoBody
    /\ schedule_player = [s \in ScheduleIds |-> NoPlayer]
    /\ workers = [w \in Workers |-> NoWorker]

StoreEmpty ==
    /\ AccountsEmpty
    /\ UsersEmpty
    /\ schedules = [s \in ScheduleIds |-> NoRow]
    /\ exceptions = [e \in ExcIds |-> NoRow]
    /\ obj = NoObj
    /\ ret = NoRet
    /\ err = Outcome("none", {})
    /\ records = [r \in RecordIds |-> NoRow]
    /\ rec = NoObj

MergeUnused ==
    /\ m_base = <<>>
    /\ m_changes = <<>>
    /\ m_result = <<>>
    /\ m_pc = "unused"

Init == StoreEmpty /\ MergeUnused

\* day schedules: a caller works on its own schedule while other schedules and
\* exceptions come and go
Next ==
    \/ \E sid \in ScheduleIds : GetOrCreateSchedule(sid)
    \/ \E sid \in OwnIds, wd \in WriteDays, value \in ValidInputs :
          CreateSchedule(sid, wd, value)
    \/ \E sid \in OwnIds : FetchSchedule(sid)
    \/ \E wd \in WriteDays, value \in ValidInputs : SaveSchedule(wd, value)
    \/ \E date \in Dates : GetDaySchedule(date)
    \/ \E eid \in 1..DayMaxExc, sid \in ScheduleIds, day \in Dates,
          changes \in ValidInputs : CreateException(eid, sid, day, changes)
    \/ \E eid \in 1..DayMaxExc, day \in Dates, changes \in ValidInputs :
          UpdateException(eid, day, changes)
    \/ \E eid \in 1..DayMaxExc : DeleteException(eid)

Spec == Init /\ [][Next]_vars

\* the caller of get_day_schedule changes the list it got back
CallerNext ==
    \/ \E sid \in OwnIds, wd \in WriteDays, value \in ValidInputs :
          CreateSchedule(sid, wd, value)
    \/ \E sid \in OwnIds : FetchSchedule(sid)
    \/ \E date \in Dates : GetDaySchedule(date)
    \/ \E new \in Mutations(ret.val) : MutateReturned(new)

SpecCaller == Init /\ [][CallerNext]_vars

\* the exception table under creations, updates and deletions
ExceptionsNext ==
    \/ \E sid \in ScheduleIds : GetOrCreateSchedule(sid)
    \/ \E eid \in ExcIds, sid \in ScheduleIds, day \in Dates, changes \in ChangeInputs :
          CreateException(eid, sid, day, changes)
    \/ \E eid \in ExcIds, day \in Dates, changes \in ChangeInputs :
          UpdateException(eid, day, changes)
    \/ \E eid \in ExcIds : DeleteException(eid)

SpecExceptions == Init /\ [][ExceptionsNext]_vars

\* records of a model with one DayScheduleField
FieldNext ==
    \/ \E rid \in RecordIds, value \in FieldInputs : CreateRecord(rid, value)
    \/ \E value \in FieldInputs : SaveRecord(value)
    \/ \E rid \in RecordIds : RefreshRecord(rid)

SpecField == Init /\ [][FieldNext]_vars

-----------------------------------------------------------------------------
(* apply_exception as a pure function of its two lists *)

MergeInit ==
    /\ StoreEmpty
    /\ m_base \in MergeInputs
    /\ m_changes \in MergeInputs
    /\ m_result = <<>>
    /\ m_pc = "call"

\* combined is built by extending the list passed in
ApplyException_in_place ==
    /\ m_pc = "call"
    /\ m_result' = apply_exception(m_base, m_changes)
    /\ m_pc' = "done"
    /\ m_base' = m_base \o m_changes
    /\ UNCHANGED m_changes
    /\ UNCHANGED <<schedules, exceptions, obj, ret, err, records, rec>>
    /\ AccountsIdle
    /\ UsersIdle

\* result = exception.apply_exception(schedule)
ApplyException ==
    /\ m_pc = "call"
    /\ m_result' = apply_exception(m_base, m_changes)
    /\ m_pc' = "done"
    /\ UNCHANGED <<m_base, m_changes>>
    /\ UNCHANGED <<schedules, exceptions, obj, ret, err, records, rec>>
    /\ AccountsIdle
    /\ UsersIdle

\* result = exception.apply_exception(result): the same exception applied once more
ApplyExceptionAgain ==
    /\ m_pc = "done"
    /\ m_result' = apply_exception(m_result, m_changes)
    /\ m_pc' = "twice"
    /\ UNCHANGED <<m_base, m_changes>>
    /\ UNCHANGED <<schedules, exceptions, obj, ret, err, records, rec>>
    /\ AccountsIdle
    /\ UsersIdle

MergeNext == ApplyException \/ ApplyExceptionAgain

SpecMerge == MergeInit /\ [][MergeNext]_vars

-----------------------------------------------------------------------------
(* Accounts: the requests of a few users, on an empty Account table or next to *)
(* a realm other users have filled up to one place below its limit             *)

\* accounts 1..n, each created by its own user in realm 1
Earlier(n) == [a \in AccountIds |->
                 IF a <= n THEN Account_row("_name", a, Realm_game_world(1), 1) ELSE NoRow]

AccountsInit ==
    /\ \E n \in {0, Prefilled} :
          /\ accounts = Earlier(n)
          /\ players = SetToBag({Player_row(a, a) : a \in 1..n})
    /\ req = NoReq
    /\ body = NoBody
    /\ schedule_player = [s \in ScheduleIds |-> NoPlayer]
    /\ workers = [w \in Workers |-> NoWorker]
    /\ UsersEmpty
    /\ schedules = [s \in ScheduleIds |-> NoRow]
    /\ exceptions = [e \in ExcIds |-> NoRow]
    /\ obj = NoObj
    /\ ret = NoRet
    /\ err = Outcome("none", {})
    /\ records = [r \in RecordIds |-> NoRow]
    /\ rec = NoObj
    /\ MergeUnused

AccountsNext ==
    \/ \E id \in ActiveAccounts : \E owner \in ActiveUsers :
          \E game_world \in GameWorldIds : \E realm \in RealmIds \cup {NoRealm} :
             CreateAccount(id, owner, game_world, realm)
    \/ \E user \in ActiveUsers : \E id \in ActiveAccounts : \E game_world \in GameWorldIds :
          ListCreateAccountView_post(user, id, game_world)
    \/ \E id \in ActiveAccounts : \E owner \in ActiveUsers : \E realm \in RealmIds \cup {NoRealm} :
          SaveAccount(id, owner, realm)
    \/ \E user \in ActiveUsers : \E id \in ActiveAccounts : JoinAccountView_post(user, id)
    \/ \E user \in ActiveUsers : \E id \in ActiveAccounts : LeaveAccountView_destroy(user, id)
    \/ \E user \in ActiveUsers : \E id \in ActiveAccounts : \E target \in ActiveUsers :
          RemoveUserFromAccountView_destroy(user, id, target)
    \/ \E user \in ActiveUsers : \E id \in ActiveAccounts : AccountDetailsView_destroy(user, id)
    \/ \E user \in ActiveUsers : \E id \in ActiveAccounts :
          \E data \in UpdateData : AccountDetailsView_update(user, id, data)
    \/ \E user \in ActiveUsers : ListCreateAccountView_get(user)
    \/ \E user \in ActiveUsers : \E id \in ActiveAccounts :
          AccountDetailsView_retrieve(user, id)
    \/ Respond

SpecAccounts == AccountsInit /\ [][AccountsNext]_vars

-----------------------------------------------------------------------------
(* The schedule endpoint: users create, join and leave accounts and read and write *)
(* their schedules on them                                                        *)

\* the users that work with schedules
ScheduleUsers == (Prefilled + 1)..(Prefilled + NumScheduleUsers)

ScheduleAccessNext ==
    \/ \E user \in ScheduleUsers : \E id \in ActiveAccounts : \E game_world \in GameWorldIds :
          ListCreateAccountView_post(user, id, game_world)
    \/ \E user \in ScheduleUsers : \E id \in ActiveAccounts : JoinAccountView_post(user, id)
    \/ \E user \in ScheduleUsers : \E id \in ActiveAccounts : LeaveAccountView_destroy(user, id)
    \/ \E user \in ScheduleUsers : \E id \in ActiveAccounts :
          ScheduleDetailsView_retrieve(user, id)
    \/ \E user \in ScheduleUsers : \E id \in ActiveAccounts : \E value \in ScheduleUpdates :
          ScheduleDetailsView_update(user, id, 1, value)
    \/ Respond

SpecScheduleAccess == Init /\ [][ScheduleAccessNext]_vars

-----------------------------------------------------------------------------
(* Concurrent requests: two workers serve joins and account creations *)

ConcurrentNext ==
    \/ \E w \in Workers : \E user \in RacingUsers : \E id \in ActiveAccounts :
          JoinAccount_validate(w, user, id)
    \/ \E w \in Workers : JoinAccount_insert(w)
    \/ \E w \in Workers : \E owner \in RacingUsers : \E game_world \in GameWorldIds :
          \E realm \in RealmIds \cup {NoRealm} :
             Account_save_validate(w, owner, game_world, realm)
    \/ \E w \in Workers : Account_save_get_or_create(w)
    \/ \E w \in Workers : Account_save_commit(w)
    \/ \E w \in Workers : Worker_respond(w)

SpecConcurrent == AccountsInit /\ [][ConcurrentNext]_vars

-----------------------------------------------------------------------------
(* Users: registrations and Discord logins, one request at a time *)

UsersNext ==
    \/ \E code \in Codes : DiscordLoginSerializer_validate(code)
    \/ \E ok \in BOOLEAN : exchange_discord_code(ok)
    \/ \E ok \in BOOLEAN : \E discord_id \in DiscordIds \cup {Null} :
          \E username \in DiscordNames \cup {Null} :
             get_discord_data(ok, discord_id, username)
    \/ get_user_for_discord_id
    \/ get_user_for_discord_id_loop
    \/ user_can_authenticate
    \/ DiscordLogin_respond
    \/ \E username \in RegisterNames : UserRegisterSerializer_create(username)
    \/ \E user \in BagToSet(users) : \E is_active \in BOOLEAN : \E is_deleted \in BOOLEAN :
          SetUserStatus(user, is_active, is_deleted)

SpecUsers == Init /\ [][UsersNext]_vars

\* the loop is not suspended for ever: the request thread runs to its end
SpecUsersLive == Init /\ [][UsersNext]_vars /\ WF_vars(get_user_for_discord_id_loop)

-----------------------------------------------------------------------------
(* Vocabulary of the claims *)

HasDuplicate(s) == \E i \in DOMAIN s : \E j \in DOMAIN s : i < j /\ s[i] = s[j]

AllInRange(s) == \A i \in DOMAIN s : 0 <= s[i] /\ s[i] <= 288

\* the values occurring exactly once in the concatenation of a and b
Singles(a, b) == {x \in ToSet(a \o b) : Occurrences(a \o b, x) = 1}

SymmetricDifference(A, B) == (A \ B) \cup (B \ A)

\* Monday = 1 ... Sunday = 7; day 1 of the proleptic calendar is a Monday
WeekdayOf(d) == ((d - 1) % 7) + 1

\* the exceptions stored for the queried date on the schedule of obj
ExceptionsOnQueriedDate ==
    {e \in ExcIds : /\ exceptions[e].exists
                    /\ exceptions[e].schedule = obj.id
                    /\ exceptions[e].day = ret.date}

Queried == ret.has /\ err.op = "GetDaySchedule"

RecordWritten == err.op \in {"CreateRecord", "SaveRecord"}

FieldError(code) == [attr |-> "field", code |-> code]

-----------------------------------------------------------------------------
(* Claims *)

\* C1: for any two integer lists, apply_exception returns, sorted ascending, exactly
\* the values that occur once in base + changes; for duplicate-free lists that is
\* the symmetric difference of the two; the worked example gives [0,20,25,50,60,75].
C1_KeepsValuesOccurringOnce ==
    /\ m_pc = "done" =>
          /\ IsStrictlyIncreasing(m_result)
          /\ ToSet(m_result) = Singles(m_base, m_changes)
          /\ (~HasDuplicate(m_base) /\ ~HasDuplicate(m_changes)) =>
                ToSet(m_result) = SymmetricDifference(ToSet(m_base), ToSet(m_changes))
    /\ apply_exception(<<0, 25, 50, 75, 100>>, <<20, 60, 100>>) = <<0, 20, 25, 50, 60, 75>>

C1_Witness ==
    /\ m_pc = "done"
    /\ m_base = <<288, 0, 0>>
    /\ m_changes = <<1, 288>>
    /\ m_result = <<1>>

\* C2: when an exception is stored for the queried date on this schedule,
\* get_day_schedule returns apply_exception of the weekday's encoding and the
\* exception's changes (monday=[0,10,25] with changes [10,15] gives [0,15,25]).
C2_ExceptionIsMerged ==
    /\ (Queried /\ ExceptionsOnQueriedDate # {}) =>
          \A e \in ExceptionsOnQueriedDate :
             ret.val = apply_exception(obj.days[WeekdayOf(ret.date)], exceptions[e].changes)
    /\ apply_exception(<<0, 10, 25>>, <<10, 15>>) = <<0, 15, 25>>

C2_Witness ==
    /\ Queried
    /\ obj.days[WeekdayOf(ret.date)] = <<288, 0>>
    /\ \E e \in ExceptionsOnQueriedDate : exceptions[e].changes = <<288>>
    /\ ret.val = <<0>>

\* C3: when no exception is stored for the exact date on this schedule,
\* get_day_schedule returns the encoding of the field of the date's ISO weekday,
\* whatever exceptions exist for other dates or for other schedules.
C3_WeekdayFieldReturned ==
    (Queried /\ ExceptionsOnQueriedDate = {}) => ret.val = obj.days[WeekdayOf(ret.date)]

C3_Witness ==
    /\ Queried
    /\ ExceptionsOnQueriedDate = {}
    /\ ret.val = <<0, 288>>
    /\ \E i \in 1..7 : obj.days[i] = <<288>>
    /\ \E e \in ExcIds : /\ exceptions[e].exists
                         /\ exceptions[e].schedule = obj.id
                         /\ exceptions[e].day # ret.date
                         /\ WeekdayOf(exceptions[e].day) = WeekdayOf(ret.date)
                         /\ exceptions[e].changes = <<0>>
    /\ \E e \in ExcIds : /\ exceptions[e].exists
                         /\ exceptions[e].schedule # obj.id
                         /\ exceptions[e].day = ret.date
                         /\ exceptions[e].changes = <<288>>

\* C4: the list get_day_schedule returns when no exception exists is a copy: after
\* the caller changes it, get_day_schedule still returns the schedule's encoding.
C4_ReturnedByValue ==
    Queried => IsPermutation(ret.val, schedules[obj.id].days[WeekdayOf(ret.date)])

\* C5: creating or saving a record whose field value repeats a value is rejected
\* with items_not_unique on that field, and nothing is written.
C5_DuplicatesRejected ==
    [][(RecordWritten' /\ HasDuplicate(rec'.field)) =>
          /\ err'.errors = {FieldError("items_not_unique")}
          /\ records' = records]_vars

C5_Witness ==
    /\ err = Outcome("SaveRecord", {FieldError("items_not_unique")})
    /\ rec.field = <<288, 288>>
    /\ rec.id \in RecordIds
    /\ records[rec.id].field = <<0, 288>>

\* C6 as stated: every value holding an element outside [0, 288] is rejected with
\* item_invalid on the field.
C6_OutOfRangeIsItemInvalid ==
    (RecordWritten /\ ~AllInRange(rec.field)) => FieldError("item_invalid") \in err.errors

\* C6 amended: a value is accepted exactly when it is duplicate-free with every
\* element in [0, 288] (so 0, 288 and the empty list are accepted); a duplicate-free
\* value holding an element outside the range is rejected with item_invalid on the
\* field, and one that also repeats a value with items_not_unique alone.
C6_RangeEnforced ==
    RecordWritten =>
       /\ (err.errors = {}) <=> (AllInRange(rec.field) /\ ~HasDuplicate(rec.field))
       /\ (~AllInRange(rec.field) /\ ~HasDuplicate(rec.field)) =>
             err.errors = {FieldError("item_invalid")}
       /\ (~AllInRange(rec.field) /\ HasDuplicate(rec.field)) =>
             err.errors = {FieldError("items_not_unique")}

C6_Witness ==
    /\ err = Outcome("SaveRecord", {FieldError("item_invalid")})
    /\ rec.field = <<0, 289>>
    /\ rec.id \in RecordIds
    /\ records[rec.id].field = <<0, 288>>

\* C7: whenever a record is persisted the stored value is the ascending
\* permutation of the value supplied, so every stored encoding reads back sorted
\* and an already sorted value is stored as it is.
C7_StoredSorted ==
    /\ \A r \in RecordIds : records[r].exists => IsSorted(records[r].field)
    /\ (RecordWritten /\ err.errors = {}) =>
          /\ IsPermutation(records[rec.id].field, rec.field)
          /\ IsSorted(rec.field) => records[rec.id].field = rec.field
    /\ err.op = "RefreshRecord" => IsSorted(rec.field)

C7_Witness ==
    /\ err = Outcome("SaveRecord", {})
    /\ rec.field = <<288, 0>>
    /\ records[rec.id].field = <<0, 288>>

SameSlot(e, sid, day) ==
    exceptions[e].exists /\ exceptions[e].schedule = sid /\ exceptions[e].day = day

AtMostOneExceptionPerDay ==
    \A e1 \in ExcIds : \A e2 \in ExcIds :
       (e1 # e2 /\ exceptions[e1].exists /\ exceptions[e2].exists) =>
          ~(exceptions[e1].schedule = exceptions[e2].schedule
               /\ exceptions[e1].day = exceptions[e2].day)

\* the slot of row e after the step is held by no other row before the step
TookFreeSlot(e) ==
    \A o \in ExcIds \ {e} :
       ~SameSlot(o, exceptions'[e].schedule, exceptions'[e].day)

\* C8: there is at most one exception per (schedule, day); a creation or an update
\* that succeeds puts its row on a (schedule, day) no other row holds, so one aimed
\* at a taken (schedule, day) fails, and a failed one leaves the table as it was;
\* exceptions for the same day on different schedules coexist.
C8_OneExceptionPerDay ==
    /\ []AtMostOneExceptionPerDay
    /\ [][(err'.op \in {"CreateException", "UpdateException"}) =>
            IF err'.errors = {}
            THEN \A e \in ExcIds :
                    exceptions'[e] # exceptions[e] =>
                       (exceptions'[e].exists /\ TookFreeSlot(e))
            ELSE exceptions' = exceptions]_vars

C8_Witness ==
    /\ err.op = "CreateException"
    /\ err.errors = {Error("__all__", "unique_together")}
    /\ \E e1 \in ExcIds : \E e2 \in ExcIds :
          /\ exceptions[e1].exists /\ exceptions[e2].exists
          /\ exceptions[e1].schedule # exceptions[e2].schedule
          /\ exceptions[e1].day = exceptions[e2].day

\* C9: for every valid encoding base, apply_exception(base, base) is empty.
C9_SelfCancels ==
    (m_pc = "done" /\ IsValidEncoding(m_base) /\ m_changes = m_base) => m_result = <<>>

C9_Witness ==
    /\ m_pc = "done"
    /\ m_base = <<0, 1, 288>>
    /\ m_changes = m_base
    /\ m_result = <<>>

\* C10: for valid encodings a and b, changes b applied to a gives the same list as
\* changes a applied to b.
C10_Commutes ==
    (m_pc = "done" /\ IsValidEncoding(m_base) /\ IsValidEncoding(m_changes)) =>
       m_result = apply_exception(m_changes, m_base)

C10_Witness ==
    /\ m_pc = "done"
    /\ m_base = <<0, 288>>
    /\ m_changes = <<1, 288>>
    /\ m_result = <<0, 1>>

\* C11: for every list base of distinct values in [0, 288], in any order,
\* apply_exception with empty changes returns base sorted ascending.
C11_EmptyChangesSortBase ==
    (m_pc = "done" /\ ~HasDuplicate(m_base) /\ AllInRange(m_base) /\ m_changes = <<>>) =>
       /\ IsStrictlyIncreasing(m_result)
       /\ IsPermutation(m_result, m_base)

C11_Witness ==
    /\ m_pc = "done"
    /\ m_base = <<288, 0, 1>>
    /\ m_changes = <<>>
    /\ m_result = <<0, 1, 288>>

-----------------------------------------------------------------------------
(* Vocabulary of the account claims: a step of the account operations is     *)
(* described by the request it served (req'), the tables before it           *)
(* (accounts, players) and after it (accounts', players')                    *)

CreateOps == {"CreateAccount", "ListCreateAccountView_post"}

SaveOps == CreateOps \cup {"SaveAccount"}

TablesUnchanged == accounts' = accounts /\ players' = players

\* the user has a player on some account of the game world
UserInGameWorld(user, game_world) ==
    \E a \in AccountIds :
       /\ accounts[a].exists
       /\ accounts[a].game_world = game_world
       /\ HasPlayer(players, user, a)

\* the step raised exactly this error
FailedWith(attr, code) == err'.errors = {Error(attr, code)}

\* the realm named by the request accepts the account: same game world, below the limit
RealmAccepts ==
    \/ req'.realm = NoRealm
    \/ /\ Realm_game_world(req'.realm) = req'.game_world
       /\ realm_accounts_count(accounts, req'.realm) < RealmLimit

\* C12: no user is a player of two accounts of one game world, nor twice a player of
\* one account; creating or joining an account in a game world where the user already
\* has a player fails with multi_account attached to 'user' and creates neither a
\* player nor an account; a user may hold players in different game worlds.
OnePlayerPerGameWorld ==
    /\ \A r \in BagToSet(players) : CopiesIn(r, players) = 1
    /\ \A r1 \in BagToSet(players) : \A r2 \in BagToSet(players) :
          (r1.user = r2.user /\ r1.account # r2.account) =>
             accounts[r1.account].game_world # accounts[r2.account].game_world

\* creating or joining where the user already plays
SecondPlayerAttempt ==
    \/ req'.op \in CreateOps /\ UserInGameWorld(req'.user, req'.game_world)
    \/ /\ req'.op = "JoinAccountView_post"
       /\ accounts[req'.account].exists
       /\ UserInGameWorld(req'.user, accounts[req'.account].game_world)

\* creating where the user does not play yet
FirstPlayerAttempt ==
    /\ req'.op \in CreateOps
    /\ ~UserInGameWorld(req'.user, req'.game_world)
    /\ RealmAccepts

\* C12 as stated: every such attempt fails with multi_account
C12_SecondPlayerIsMultiAccount ==
    [][SecondPlayerAttempt => (FailedWith("user", "multi_account") /\ TablesUnchanged)]_vars

\* the attempt fails and creates nothing; the error is multi_account unless the
\* account names a realm that Account.save rejects first
SecondPlayerRefused ==
    SecondPlayerAttempt =>
       /\ err'.errors # {}
       /\ TablesUnchanged
       /\ (req'.op \in CreateOps /\ ~RealmAccepts) \/ FailedWith("user", "multi_account")

FirstPlayerCreated ==
    FirstPlayerAttempt =>
       /\ err'.errors = {}
       /\ HasPlayer(players', req'.user, req'.account)

\* C12 (amended): as C12, the error being multi_account unless the account names a
\* realm that is rejected first
C12_OnePlayerPerGameWorld ==
    /\ []OnePlayerPerGameWorld
    /\ [][SecondPlayerRefused /\ FirstPlayerCreated]_vars

\* a user playing in every game world is refused a second player in one of them
C12_Witness ==
    /\ req.op = "JoinAccountView_post"
    /\ err.errors = {Error("user", "multi_account")}
    /\ accounts[req.account].exists
    /\ \A w \in GameWorldIds : UserInGameWorld(req.user, w)

\* C13: the owner of every existing account is one of its players: a successful
\* Account save makes the owner a player, leave_account never removes the owner, and
\* change_owner only accepts an existing player.
OwnerIsPlayer ==
    \A a \in AccountIds : accounts[a].exists => HasPlayer(players, accounts[a].owner, a)

SaveMakesOwnerPlayer ==
    (req'.op \in SaveOps /\ err'.errors = {}) =>
       /\ accounts'[req'.account].exists
       /\ accounts'[req'.account].owner = req'.user
       /\ HasPlayer(players', req'.user, req'.account)

LeaveKeepsOwner ==
    (/\ req'.op \in {"LeaveAccountView_destroy", "RemoveUserFromAccountView_destroy"}
     /\ accounts[req'.account].exists) =>
       /\ accounts'[req'.account] = accounts[req'.account]
       /\ HasPlayer(players', accounts[req'.account].owner, req'.account)

NewOwnerWasPlayer ==
    (/\ req'.op = "AccountDetailsView_update"
     /\ accounts[req'.account].exists
     /\ accounts'[req'.account] # accounts[req'.account]) =>
       /\ accounts'[req'.account] = [accounts[req'.account] EXCEPT !.owner = req'.target]
       /\ HasPlayer(players, req'.target, req'.account)

C13_OwnerIsPlayer ==
    /\ []OwnerIsPlayer
    /\ [][SaveMakesOwnerPlayer /\ LeaveKeepsOwner /\ NewOwnerWasPlayer]_vars

\* the ownership went to another player, and the former owner still plays
C13_Witness ==
    /\ req.op = "AccountDetailsView_update"
    /\ err.errors = {}
    /\ req.target # req.user
    /\ accounts[req.account].owner = req.target
    /\ HasPlayer(players, req.target, req.account)
    /\ HasPlayer(players, req.user, req.account)

\* C14: no realm has more than 15 accounts; creating an account in a realm that
\* already has 15 accounts, or saving an existing account with its realm set to such
\* a realm, fails with realm_full attached to 'realm' and leaves the realm's
\* membership unchanged.
RealmMembers(accts, realm) == {a \in AccountIds : accts[a].exists /\ accts[a].realm = realm}

RealmWithinLimit ==
    \A r \in RealmIds : Cardinality(RealmMembers(accounts, r)) <= RealmLimit

\* an account is created in, or saved with, a realm that holds RealmLimit accounts
IntoFullRealm ==
    /\ req'.op \in SaveOps
    /\ req'.realm # NoRealm
    /\ Cardinality(RealmMembers(accounts, req'.realm)) >= RealmLimit

MembershipUnchanged ==
    \A r \in RealmIds : RealmMembers(accounts', r) = RealmMembers(accounts, r)

\* the step raised one error, of this code
FailedWithCode(code) ==
    /\ err'.errors # {}
    /\ \A e \in err'.errors : e.code = code

\* C14 as stated: every such attempt fails with realm_full
C14_FullRealmIsRealmFull ==
    [][IntoFullRealm => (FailedWith("realm", "realm_full") /\ MembershipUnchanged)]_vars

\* the attempt fails and the membership stays; the error is realm_full when the
\* game worlds match, and game_world_mismatch, raised first, when they do not
FullRealmRefused ==
    IntoFullRealm =>
       /\ MembershipUnchanged
       /\ IF Realm_game_world(req'.realm) = req'.game_world
          THEN FailedWith("realm", "realm_full")
          ELSE FailedWithCode("game_world_mismatch")

\* C14 (amended): as C14, the error being game_world_mismatch when the account's game
\* world is not the realm's
C14_RealmLimit ==
    /\ []RealmWithinLimit
    /\ [][FullRealmRefused]_vars

\* an account outside the realm was refused by the full realm
C14_Witness ==
    /\ req.op = "SaveAccount"
    /\ req.realm # NoRealm
    /\ err.errors = {Error("realm", "realm_full")}
    /\ accounts[req.account].realm = NoRealm
    /\ Cardinality(RealmMembers(accounts, req.realm)) = RealmLimit

\* C15: Account.save is all-or-nothing: when making the owner a player fails after
\* the account row was written, the write is undone: a new account does not exist
\* afterwards and an existing account's stored fields are as before the save.
OwnerPlayerFailed ==
    /\ req'.op \in SaveOps
    /\ validate_realm_matches(
          Account_row("_name", req'.user, req'.game_world, req'.realm)) = {}
    /\ validate_realm_size(
          accounts, Account_row("_name", req'.user, req'.game_world, req'.realm)) = {}
    /\ err'.errors # {}

C15_SaveIsAtomic ==
    [][OwnerPlayerFailed =>
          /\ accounts'[req'.account] = accounts[req'.account]
          /\ TablesUnchanged]_vars

\* an existing account was saved with an owner who cannot become its player
C15_Witness ==
    /\ req.op = "SaveAccount"
    /\ err.errors = {Error("user", "multi_account")}
    /\ accounts[req.account].exists
    /\ accounts[req.account].owner # req.user
    /\ ~HasPlayer(players, req.user, req.account)

\* C16: creating an account with a realm, or saving an account after setting its
\* realm, where the realm's game world is not the account's, fails with
\* game_world_mismatch attached to the 'realm' field (error_dict['realm']), and nothing
\* is stored; an account with no realm is never rejected by this check.
GameWorldMismatch ==
    /\ req'.op \in SaveOps
    /\ req'.realm # NoRealm
    /\ Realm_game_world(req'.realm) # req'.game_world

C16_MismatchAttachedToRealm ==
    [][/\ GameWorldMismatch =>
             (FailedWith("realm", "game_world_mismatch") /\ TablesUnchanged)
       /\ (req'.op \in SaveOps /\ req'.realm = NoRealm) =>
             (\A e \in err'.errors : e.code # "game_world_mismatch")]_vars

\* C17: leave_account(user) removes exactly the player linking the user to the
\* account when the user is a non-owner player; it fails with failed_remove_owner
\* (attached to 'owner') for the owner and with not_player for a user who is no player
\* of the account, the players and the owner staying as they were; the same holds
\* when the owner leaves and when the owner is the target of the remove-user endpoint.

\* the user leave_account is called with
Leaver == IF req'.op = "LeaveAccountView_destroy" THEN req'.user ELSE req'.target

\* the view reached account.leave_account
LeaveCalled ==
    /\ req'.op \in {"LeaveAccountView_destroy", "RemoveUserFromAccountView_destroy"}
    /\ accounts[req'.account].exists
    /\ HasPlayer(players, req'.user, req'.account)
    /\ req'.op = "RemoveUserFromAccountView_destroy" => accounts[req'.account].owner = req'.user

C17_LeaveAccount ==
    [][LeaveCalled =>
          /\ accounts' = accounts
          /\ IF Leaver = accounts[req'.account].owner
             THEN FailedWith("owner", "failed_remove_owner") /\ players' = players
             ELSE IF ~HasPlayer(players, Leaver, req'.account)
                  THEN FailedWithCode("not_player") /\ players' = players
                  ELSE /\ err'.errors = {}
                       /\ players' = players (-) SetToBag({Player_row(Leaver, req'.account)})
                       /\ players = players' (+) SetToBag({Player_row(Leaver, req'.account)})]_vars

\* the owner removed another player, and the owner's own player is still there
C17_Witness ==
    /\ req.op = "RemoveUserFromAccountView_destroy"
    /\ err.errors = {}
    /\ req.target # req.user
    /\ accounts[req.account].owner = req.user
    /\ HasPlayer(players, req.user, req.account)
    /\ ~HasPlayer(players, req.target, req.account)

\* C18: deleting an account, changing its owner and removing a user from it through
\* the API happen only when the requesting user is the account's current owner: a
\* player who is not the owner is refused with permission_denied (attr 'user') before
\* any change, the account, its owner and its players staying as they were.
OwnerOnlyOps ==
    {"AccountDetailsView_destroy", "AccountDetailsView_update",
     "RemoveUserFromAccountView_destroy"}

\* a player of the account who is not its owner asks
NotOwnerRequest ==
    /\ req'.op \in OwnerOnlyOps
    /\ accounts[req'.account].exists
    /\ HasPlayer(players, req'.user, req'.account)
    /\ accounts[req'.account].owner # req'.user

C18_OwnerOnly ==
    [][/\ NotOwnerRequest => (FailedWith("user", "permission_denied") /\ TablesUnchanged)
       /\ (req'.op \in OwnerOnlyOps /\ ~TablesUnchanged) =>
             (accounts[req'.account].exists /\ accounts[req'.account].owner = req'.user)]_vars

\* a player who is not the owner asked for the deletion, and the account is still there
C18_Witness ==
    /\ req.op = "AccountDetailsView_destroy"
    /\ err.errors = {Error("user", "permission_denied")}
    /\ accounts[req.account].exists
    /\ HasPlayer(players, req.user, req.account)
    /\ accounts[req.account].owner # req.user

\* C19: change_owner(new_owner) with new_owner a player of the account succeeds and
\* makes new_owner the stored owner, in every reachable state of the account
\* (whatever its realm and however many accounts that realm has); the players are
\* unchanged by the transfer.

\* the owner asks to hand the account to one of its players
TransferToPlayer ==
    /\ req'.op = "AccountDetailsView_update"
    /\ accounts[req'.account].exists
    /\ accounts[req'.account].owner = req'.user
    /\ HasPlayer(players, req'.user, req'.account)
    /\ req'.target # Missing
    /\ HasPlayer(players, req'.target, req'.account)

C19_TransferSucceeds ==
    [][TransferToPlayer =>
          /\ err'.errors = {}
          /\ accounts' = [accounts EXCEPT ![req'.account].owner = req'.target]
          /\ players' = players]_vars

\* C20: change_owner(new_owner) with new_owner no player of the account fails with
\* bad_owner attached to 'owner', the stored owner and players unchanged; change_owner
\* with the current owner succeeds and writes nothing; an update request without an
\* owner (e.g. only a new name) is rejected and changes no field of the account.

\* the owner's update request passed validate_owner
OwnerUpdates ==
    /\ req'.op = "AccountDetailsView_update"
    /\ accounts[req'.account].exists
    /\ accounts[req'.account].owner = req'.user
    /\ HasPlayer(players, req'.user, req'.account)

C20_RefusedAndNoOpUpdates ==
    [][OwnerUpdates =>
          /\ (req'.target # Missing /\ ~HasPlayer(players, req'.target, req'.account)) =>
                (FailedWith("owner", "bad_owner") /\ TablesUnchanged)
          /\ req'.target = req'.user => (err'.errors = {} /\ TablesUnchanged)
          /\ req'.target = Missing => (err'.errors # {} /\ TablesUnchanged)]_vars

\* the owner named a user who plays elsewhere, but not on this account
C20_Witness ==
    /\ req.op = "AccountDetailsView_update"
    /\ err.errors = {Error("owner", "bad_owner")}
    /\ accounts[req.account].owner = req.user
    /\ ~HasPlayer(players, req.target, req.account)
    /\ \E a \in AccountIds : a # req.account /\ HasPlayer(players, req.target, a)


\* C21: a user sees and targets only the accounts they are a player of: the account
\* list answers exactly the accounts on which the user has a player; retrieve,
\* update, delete, leave and remove-user requests for an account the user is not a
\* player of are answered not_found and change nothing; a player who is not the
\* owner can retrieve the account.
TargetOps ==
    {"AccountDetailsView_retrieve", "AccountDetailsView_update",
     "AccountDetailsView_destroy", "LeaveAccountView_destroy",
     "RemoveUserFromAccountView_destroy"}

\* the accounts having a player for the user
PlaysOn(user) ==
    {a \in AccountIds :
        accounts[a].exists /\ \E r \in BagToSet(players) : r.user = user /\ r.account = a}

ListIsOwnAccounts ==
    req'.op = "ListCreateAccountView_get" =>
       /\ err'.errors = {}
       /\ body'.kind = "list"
       /\ BagToSet(body'.accounts) = PlaysOn(req'.user)

StrangerGetsNotFound ==
    (req'.op \in TargetOps /\ req'.account \notin PlaysOn(req'.user)) =>
       /\ FailedWith(NON_FIELD_ERRORS, "not_found")
       /\ TablesUnchanged
       /\ body' = NoBody

PlayerRetrieves ==
    (req'.op = "AccountDetailsView_retrieve" /\ req'.account \in PlaysOn(req'.user)) =>
       /\ err'.errors = {}
       /\ body' = [kind |-> "account", id |-> req'.account, account |-> accounts[req'.account]]
       /\ TablesUnchanged

C21_OnlyOwnAccounts == [][ListIsOwnAccounts /\ StrangerGetsNotFound /\ PlayerRetrieves]_vars

\* a user lists their accounts while another account exists that they do not play on
C21_Witness ==
    /\ req.op = "ListCreateAccountView_get"
    /\ body.kind = "list"
    /\ BagToSet(body.accounts) # {}
    /\ \E a \in ActiveAccounts : accounts[a].exists /\ ~BagIn(a, body.accounts)




-----------------------------------------------------------------------------
(* Vocabulary of the user claims *)

TakenNames == {u.username : u \in BagToSet(users)}

\* the rows of the id the login looks for
UsersOfId == {u \in BagToSet(users) : u.discord_id = auth.discord_id}

\* this step is the one get_user_for_discord_id returns at
FindOrCreateReturns ==
    /\ auth.pc \in {"get_user_for_discord_id", "search"}
    /\ auth'.pc # "search"

\* the name the new user is to get: name, or name_k for the smallest k >= 1 not taken
ExpectedName ==
    IF auth.discord_username \notin TakenNames THEN auth.discord_username
    ELSE LET k == CHOOSE k \in 1..(MaxTableUsers + 1) :
                     /\ suffixed(auth.discord_username, k) \notin TakenNames
                     /\ \A j \in 1..(k - 1) : suffixed(auth.discord_username, j) \in TakenNames
         IN suffixed(auth.discord_username, k)

\* C22: get_user_for_discord_id(discord_id, name) returns the user of discord_id when
\* there is one and creates no user; otherwise it creates exactly one user with that
\* discord_id, named name when name is free and else name_k for the smallest k >= 1
\* with name_k not taken. The search terminates, and at all times there is at most
\* one user per discord_id and the usernames are pairwise distinct.
ExistingUserReturned ==
    (FindOrCreateReturns /\ UsersOfId # {}) =>
       /\ users' = users
       /\ auth'.pc = "user_can_authenticate"
       /\ \E u \in UsersOfId : auth'.user = u.username

NewUserCreated ==
    (FindOrCreateReturns /\ UsersOfId = {}) =>
       /\ users' = users (+) SetToBag({User_row(ExpectedName, auth.discord_id, TRUE, FALSE)})
       /\ BagCardinality(users') = BagCardinality(users) + 1
       /\ auth'.pc = "user_can_authenticate"
       /\ auth'.user = ExpectedName

SearchCreatesNothing == (auth.pc = "search" /\ auth'.pc = "search") => users' = users

UniqueUsers ==
    \A u \in BagToSet(users) :
       /\ CopiesIn(u, users) = 1
       /\ \A v \in BagToSet(users) \ {u} :
             /\ u.username # v.username
             /\ u.discord_id # Null => u.discord_id # v.discord_id

\* name, name_1 .. name_(counter-1) are taken when name_counter is tried
SearchBounded == auth.pc = "search" => auth.counter <= BagCardinality(users)

C22_FindOrCreateUser ==
    /\ [](UniqueUsers /\ SearchBounded)
    /\ [][ExistingUserReturned /\ NewUserCreated /\ SearchCreatesNothing]_vars
    /\ ((auth.pc = "search") ~> (auth.pc = "user_can_authenticate"))

\* with a, a_1 and a_2 taken, the new user of a Discord account named a is a_3
C22_Witness ==
    /\ auth.pc = "user_can_authenticate"
    /\ auth.discord_username = "a"
    /\ auth.counter = 3
    /\ auth.user = "a_3"
    /\ BagIn(User_row("a_3", auth.discord_id, TRUE, FALSE), users)
    /\ {"a", "a_1", "a_2"} \subseteq TakenNames


\* C23: the Discord login runs its steps in order (exchange the code, fetch id and
\* username, find or create the user, check the user may authenticate) and yields
\* tokens only if every step succeeds; a failed step ends the login with
\* no_active_account and no later step runs, so no user is created when the exchange
\* or the user-data step fails.
RanStep(step) == \E i \in 1..Len(auth.steps) : auth.steps[i] = step

Finished == auth.pc = "done"

\* what makes a login fail, read off the request and the answers it got
FailureCause ==
    \/ ~truthy(auth.code)
    \/ RanStep("exchange_discord_code") /\ ~auth.post_ok
    \/ /\ RanStep("get_discord_data")
       /\ ~auth.get_ok \/ ~truthy(auth.discord_id) \/ ~truthy(auth.discord_username)
    \/ /\ RanStep("user_can_authenticate")
       /\ \E u \in BagToSet(users) :
             u.username = auth.user /\ (u.is_deleted \/ ~u.is_active)

\* as first stated: every failure, the missing code included, is no_active_account
C23_EveryFailureIsNoActiveAccount ==
    (Finished /\ FailureCause) => (~auth.tokens /\ auth.error = "no_active_account")

StepsInOrder == auth.steps = SubSeq(LoginSteps, 1, Len(auth.steps))

TokensOnlyAfterEveryStep ==
    auth.tokens =>
       /\ Finished
       /\ auth.steps = LoginSteps
       /\ auth.error = Null
       /\ ~FailureCause
       /\ \E u \in BagToSet(users) :
             u.username = auth.user /\ u.discord_id = auth.discord_id

SucceedsOtherwise == (Finished /\ ~FailureCause) => auth.tokens

\* amended: a request without a code (or with an empty one) is refused by the code
\* field, with required (or blank), before any step
FieldRefusesMissingCode ==
    (Finished /\ ~truthy(auth.code)) =>
       /\ ~auth.tokens
       /\ auth.steps = <<>>
       /\ auth.error = IF auth.code = Null THEN "required" ELSE "blank"

StepFailureIsNoActiveAccount ==
    (Finished /\ truthy(auth.code) /\ FailureCause) =>
       (~auth.tokens /\ auth.error = "no_active_account")

\* after a failure (and after a success) nothing of the login runs any more
FailureEndsLogin == auth.pc = "done" => (auth' = NoAuth /\ users' = users)

\* a login changes the User table only in its find-or-create step, which it reaches
\* only with a token and with the id and the username
OnlyFindOrCreateWrites ==
    (auth.pc # "idle" /\ users' # users) =>
       /\ auth.pc \in {"get_user_for_discord_id", "search"}
       /\ auth.post_ok /\ auth.get_ok
       /\ truthy(auth.discord_id) /\ truthy(auth.discord_username)

C23_LoginInOrder ==
    /\ [](/\ StepsInOrder
          /\ TokensOnlyAfterEveryStep
          /\ SucceedsOtherwise
          /\ FieldRefusesMissingCode
          /\ StepFailureIsNoActiveAccount)
    /\ [][FailureEndsLogin /\ OnlyFindOrCreateWrites]_vars

\* every step ran and the login failed at the last one: the matched user is inactive
C23_Witness ==
    /\ Finished
    /\ auth.steps = LoginSteps
    /\ auth.error = "no_active_account"
    /\ \E u \in BagToSet(users) :
          u.username = auth.user /\ u.discord_id = auth.discord_id /\ ~u.is_active


-----------------------------------------------------------------------------
\* C24: a player's weekly schedule is created on the first access through the
\* schedule endpoint, with all seven days empty, and every later access returns that
\* same schedule: each player has at most one schedule, an access never alters an
\* existing schedule's days, and a user who is not a player of the addressed account
\* gets not_found and no schedule is created.
ScheduleOps == {"ScheduleDetailsView_retrieve", "ScheduleDetailsView_update"}

\* the player row the request comes from
Asker == Player_row(req'.user, req'.account)

PlayerReads ==
    /\ req'.op = "ScheduleDetailsView_retrieve"
    /\ accounts[req'.account].exists
    /\ BagIn(Asker, players)

AllDaysEmpty == [exists |-> TRUE, days |-> [i \in 1..7 |-> <<>>]]

FirstAccessCreates ==
    (PlayerReads /\ \A s \in ScheduleIds : schedule_player[s] # Asker) =>
       /\ err'.errors = {}
       /\ \E s \in ScheduleIds :
             /\ ~schedules[s].exists
             /\ schedules' = [schedules EXCEPT ![s] = AllDaysEmpty]
             /\ schedule_player' = [schedule_player EXCEPT ![s] = Asker]
             /\ body' = [kind |-> "schedule", id |-> s, days |-> AllDaysEmpty.days]

LaterAccessReturnsSame ==
    \A s \in ScheduleIds :
       (PlayerReads /\ schedule_player[s] = Asker) =>
          /\ err'.errors = {}
          /\ schedules' = schedules
          /\ schedule_player' = schedule_player
          /\ body' = [kind |-> "schedule", id |-> s, days |-> schedules[s].days]

StrangerCreatesNothing ==
    (/\ req'.op \in ScheduleOps
     /\ ~(accounts[req'.account].exists /\ BagIn(Asker, players))) =>
       /\ FailedWith(NON_FIELD_ERRORS, "not_found")
       /\ schedules' = schedules
       /\ schedule_player' = schedule_player
       /\ body' = NoBody

\* a schedule request leaves the schedules of the other players as they are
OthersUntouched ==
    \A s \in ScheduleIds :
       (req'.op \in ScheduleOps /\ schedules[s].exists /\ schedule_player[s] # Asker) =>
          (schedules'[s] = schedules[s] /\ schedule_player'[s] = schedule_player[s])

OneSchedulePerPlayer ==
    \A s, t \in ScheduleIds :
       /\ schedules[s].exists <=> schedule_player[s] # NoPlayer
       /\ (schedules[s].exists /\ schedule_player[s] = schedule_player[t]) => s = t
       /\ schedules[s].exists => BagIn(schedule_player[s], players)

C24_ScheduleOnFirstAccess ==
    /\ []OneSchedulePerPlayer
    /\ [][/\ FirstAccessCreates
          /\ LaterAccessReturnsSame
          /\ StrangerCreatesNothing
          /\ OthersUntouched]_vars

\* a player reads the schedule they wrote earlier, while another player has one too
C24_Witness ==
    /\ req.op = "ScheduleDetailsView_retrieve"
    /\ body.kind = "schedule"
    /\ body.days[1] = <<MinValue, MaxValue>>
    /\ schedule_player[body.id] = Player_row(req.user, req.account)
    /\ \A s \in ScheduleIds : schedules[s].exists


-----------------------------------------------------------------------------
\* the number of flip points of s at or before time point t
FlipsUpTo(s, t) == Cardinality({i \in DOMAIN s : s[i] <= t})

\* C25: for valid encodings base and changes the merged result toggles availability
\* exactly where changes says: at every time point t in 0..288 the number of flip
\* points <= t of the result has the parity of the number of flip points <= t of
\* base plus the number of flip points <= t of changes.
C25_TogglesWhereChangesSay ==
    (m_pc = "done" /\ IsValidEncoding(m_base) /\ IsValidEncoding(m_changes)) =>
       \A t \in MinValue..MaxValue :
          FlipsUpTo(m_result, t) % 2 = (FlipsUpTo(m_base, t) + FlipsUpTo(m_changes, t)) % 2

\* the flip at 1 is cancelled, the one at 288 is added
C25_Witness ==
    /\ m_pc = "done"
    /\ m_base = <<0, 1>>
    /\ m_changes = <<1, 288>>
    /\ m_result = <<0, 288>>

\* C26: applying the same exception twice restores the schedule: for valid sorted
\* encodings base and changes, apply_exception(apply_exception(base, changes), changes)
\* is base.
C26_TwiceRestores ==
    (/\ m_pc = "twice"
     /\ IsValidEncoding(m_base) /\ IsSorted(m_base)
     /\ IsValidEncoding(m_changes) /\ IsSorted(m_changes)) =>
       m_result = m_base

\* a second application that has something to undo: a flip removed and a flip added
C26_Witness ==
    /\ m_pc = "twice"
    /\ m_base = <<0, 1, 288>>
    /\ m_changes = <<0, 288>>
    /\ m_result = m_base

\* C27: the merge is closed over valid encodings and pure: for valid base and changes
\* the result is strictly increasing, its values lie in [0, 288] and all come from
\* base or changes, and neither the base list passed in nor the exception's changes
\* is modified by the call.
MergeIsClosed ==
    (m_pc = "done" /\ IsValidEncoding(m_base) /\ IsValidEncoding(m_changes)) =>
       /\ IsStrictlyIncreasing(m_result)
       /\ \A i \in DOMAIN m_result : MinValue <= m_result[i] /\ m_result[i] <= MaxValue
       /\ ToSet(m_result) \subseteq ToSet(m_base) \cup ToSet(m_changes)

MergeIsPure == m_pc' # m_pc => (m_base' = m_base /\ m_changes' = m_changes)

C27_ClosedAndPure == []MergeIsClosed /\ [][MergeIsPure]_vars

\* unsorted valid lists were merged and are still what they were
C27_Witness ==
    /\ m_pc = "done"
    /\ m_base = <<288, 0>>
    /\ m_changes = <<1, 0>>
    /\ m_result = <<1, 288>>


-----------------------------------------------------------------------------
\* C28: for a schedule object that has just been created or saved with a day's
\* values supplied in arbitrary order, get_day_schedule for a date on that weekday
\* returns a strictly increasing list, with or without an exception on the date,
\* and without the object being reloaded from the store first.
C28_FreshObjectReturnsIncreasing == Queried => IsStrictlyIncreasing(ret.val)


-----------------------------------------------------------------------------
\* C29: the realm size check rejects only saves that would add an account to a
\* realm: saving an account that already is a member of its realm (renaming it,
\* changing its owner) is never rejected with realm_full, also when that realm holds
\* exactly RealmLimit accounts.
MemberSaved ==
    /\ req'.op \in {"SaveAccount", "AccountDetailsView_update"}
    /\ accounts[req'.account].exists
    /\ accounts[req'.account].realm # NoRealm
    /\ req'.op = "SaveAccount" => req'.realm = accounts[req'.account].realm

C29_MemberSaveNeverRealmFull == [][MemberSaved => ~FailedWithCode("realm_full")]_vars


-----------------------------------------------------------------------------
\* C30: the one-player-per-user-per-game-world rule and the RealmLimit hold under
\* concurrent requests: of two operations that each check the rule and then insert
\* (two joins or account creations of one user in one game world, or two accounts
\* entering a realm one place below its limit), at most one succeeds, in every
\* interleaving.
Succeeded(w) == workers[w].pc = "done" /\ workers[w].errors = {}

SameUserSameGameWorld(w1, w2) ==
    /\ workers[w1].user = workers[w2].user
    /\ workers[w1].game_world = workers[w2].game_world

IntoSameRealmAboveLimit(w1, w2) ==
    /\ workers[w1].realm # NoRealm
    /\ workers[w1].realm = workers[w2].realm
    /\ realm_accounts_count(accounts, workers[w1].realm) > RealmLimit

C30_AtMostOneSucceeds ==
    \A w1 \in Workers : \A w2 \in Workers \ {w1} :
       ~(/\ Succeeded(w1)
         /\ Succeeded(w2)
         /\ SameUserSameGameWorld(w1, w2) \/ IntoSameRealmAboveLimit(w1, w2))

=============================================================================
